---- MODULE Spec2Model ----
(***************************************************************************)
(* Resilience layer of breeze_trader_enhanced: error classification, the   *)
(* retry executors, the idempotency guard, the token bucket, the circuit   *)
(* breaker, the two API clients (BreezeAPIClient, CompleteBreezeClient)    *)
(* and the risk monitor: its worker lifecycle and its stop rules.          *)
(*                                                                         *)
(* Each component has its own specification over the shared variables:     *)
(*   SpecRetry    retry_api_call / retry_with_backoff wrapping one call    *)
(*   SpecBreaker  concurrent calls through one CircuitBreaker              *)
(*   SpecBucket   concurrent calls on one TokenBucketRateLimiter           *)
(*   SpecBucketWaits   wait_for_token calls on it, scheduled fairly        *)
(*   SpecGuard    calls on one IdempotencyGuard                            *)
(*   SpecOrder    concurrent reads and writes on one BreezeAPIClient       *)
(*   SpecSession  the same with connect among the calls                    *)
(*   SpecComplete calls on one CompleteBreezeClient                        *)
(*   SpecLimiter  the same, for quotes and well-formed orders only         *)
(*   SpecMonitor  start()/stop() and the poll workers of one RiskMonitor   *)
(*   SpecMonitorFair   the same with every worker scheduled fairly         *)
(*   SpecMonitorCalls  the same with start()/stop() called one at a time   *)
(*   SpecAlerts   the alert queue and history, their writer and readers    *)
(*   SpecStops    positions, stop rules and the poll cycles of one worker  *)
(*   SpecLifecycle     the same with remove_position and stop() called     *)
(*   SpecStopsWorkers  the same with the two workers that two concurrent   *)
(*                start() calls leave                                      *)
(* A specification leaves the other components' variables unchanged.       *)
(*                                                                         *)
(* Strings are sequences of one-character strings, so that str.lower()     *)
(* and the substring test `p in msg` are computed, not assumed.            *)
(***************************************************************************)
EXTENDS Integers, Sequences, FiniteSets, TLC

VARIABLES
    \* ---- wall clock, time.time(), in seconds ----
    now,
    \* ---- retry executor (one wrapper call) ----
    rImpl,          \* which decorator wraps the call
    rMax,           \* its max_attempts argument
    rPc,            \* position of the wrapper: "loop", "call", "sleep", "done"
    rAttempt,       \* the loop variable `attempt`
    rLastExc,       \* last_exc / last_exception (<<>> stands for None)
    rResult,        \* the wrapper's return value once rPc = "done"
    rInvocations,   \* history: number of times func was invoked
    rAllRaisedNonPerm, \* history: every invocation so far raised a non-permanent fault
    rPermAt,        \* history: invocation count when a permanent fault was raised (0: none)
    rLast,          \* history: the last outcome of func and the decision taken on it
    rPolicy,        \* the decorator's delay arguments
    rDelay,         \* the local `delay`, in eighths of a second
    rSleep,         \* the time.sleep in progress: its argument and what it was computed from
    \* ---- one CircuitBreaker and the threads calling through it ----
    cbThreshold,    \* failure_threshold
    cbState,        \* state: "CLOSED", "OPEN", "HALF_OPEN"
    cbFailureCount, \* failure_count
    cbLastFailureTime, \* last_failure_time (NoTime stands for None)
    cbPc,           \* per thread: "idle", "admitted" (past the state check), "running" (func invoked)
    cbCall,         \* history, per thread: what its call in progress, or its last rejected call, saw
    cbConsec,       \* history: failures recorded since the last recorded success
    cbLastEvent,    \* history: the last event that touched the breaker
    cbCalls,        \* history: number of calls started
    \* ---- one API client (the Gateway) and the threads calling it ----
    gClient,        \* the class of the client
    gConnected,     \* self.connected and self.breeze is not None
    gRecent,        \* BreezeAPIClient.idempotency._recent: set of [key, at]
    gApiLock,       \* holder of self._api_lock (0: free)
    gTokens,        \* CompleteBreezeClient.rate_limiter.tokens
    gLastRefill,    \* CompleteBreezeClient.rate_limiter.last_refill
    gCacheAt,       \* CompleteBreezeClient._cache_timestamps of the quote (NoTime: not cached)
    gPc,            \* per thread: position inside its call
    gCall,          \* per thread: its call in progress, with its history (refusedAt:
                    \* when the guard turned it away as a duplicate)
    gDone,          \* history: the call that ended last, as its caller saw it
    gLive,          \* history: reservations made, not released and not yet 60 s old
    gTransportFailing,    \* history: the last transport call that ended raised
    gCalls,         \* history: number of calls started
    \* ---- one RiskMonitor, the threads calling start/stop, its workers ----
    mRunning,       \* self._running (the Event's flag)
    mThread,        \* self._thread (0 stands for None)
    mPc,            \* per caller: position inside start() or stop()
    mJoin,          \* per caller: the thread its stop() joins (0: none)
    mWorker,        \* per worker thread: position inside _loop
    mStarts,        \* number of start() calls made so far
    mSlice,         \* per worker thread: iterations its sleep loop has left
    mAfter,         \* history, per worker thread: the slices it has slept to the end
                    \* since stop() cleared the flag, while the flag has stayed cleared
    mLast,          \* history: the last of start() and stop() to be called
    \* ---- one RiskMonitor's positions, alerts and poll cycles ----
    pPos,           \* self._positions: id -> MonitoredPosition (NoPos: not monitored)
    pAlerts,        \* self._alert_history
    pPc,            \* per poll worker: position inside _loop / _check_all
    pSnap,          \* per poll worker: positions of its snapshot not yet visited
    pCur,           \* per poll worker: the position being visited (0: none)
    pBranch,        \* per poll worker: the branch of _check_stop it is in
    pCycles,        \* number of poll cycles started so far
    pCalls,         \* number of foreground calls made so far
    pLastCheck,     \* history: the _check_stop that has just run, and what it decided
    pCycleLog,      \* history, per poll worker: what its cycle in progress has met
    pSince,         \* history, per position with a trailing stop: the price it carried
                    \* when the rule was set, the extreme of the prices read since
    pRemoved,       \* ids that remove_position has popped from self._positions (the
                    \* MonitoredPosition stays in pPos: a snapshot may still refer to it)
    \* ---- one IdempotencyGuard called directly ----
    iGuard,         \* history, per key: its standing reservation and its last check_and_reserve
    \* ---- one TokenBucketRateLimiter and the threads calling it ----
    tbClock,        \* time.time(), in units of 1/rate seconds (0.2 s)
    tbTokens,       \* self.tokens
    tbLastRefill,   \* self.last_refill
    tbPc,           \* per thread: "idle", or its position inside wait_for_token
    tbWait,         \* per thread: tokens, start and timeout of its wait_for_token
    tbCalls,        \* history: number of calls started
    tbLog,          \* history: tokens taken at this instant, the last drain, the last acquire,
                    \* and the grants made so far
    \* ---- one RiskMonitor's alert queue and history, the worker emitting
    \*      alerts and the threads reading them ----
    aQueue,         \* self._alerts, oldest first (alerts are numbered as they are created)
    aHistory,       \* self._alert_history
    aPc,            \* the poll worker: "idle", or its position inside `if triggered:`
    aNext,          \* the number the next alert gets
    aEmits,         \* number of alerts emitted so far
    aReader,        \* per reading thread: its position inside get_alerts and its list so far
    aReads,         \* number of get_alerts / get_alert_history calls made so far
    aHanded,        \* history: the alerts get_nowait has handed out, in that order
    aSeen           \* history: what the last get_alert_history returned

varsRetry == <<rImpl, rMax, rPc, rAttempt, rLastExc, rResult,
               rInvocations, rAllRaisedNonPerm, rPermAt, rLast, rPolicy, rDelay, rSleep>>

varsBreaker == <<cbThreshold, cbState, cbFailureCount, cbLastFailureTime,
                 cbPc, cbCall, cbConsec, cbLastEvent, cbCalls>>

varsGateway == <<gClient, gConnected, gRecent, gApiLock, gTokens,
                 gLastRefill, gCacheAt, gPc, gCall, gDone, gLive, gTransportFailing, gCalls>>

varsMonitor == <<mRunning, mThread, mPc, mJoin, mWorker, mStarts, mSlice, mAfter, mLast>>

varsStops == <<pPos, pAlerts, pPc, pSnap, pCur, pBranch, pCycles, pCalls,
               pLastCheck, pCycleLog, pSince, pRemoved>>

varsGuard == <<iGuard>>

varsBucket == <<tbClock, tbTokens, tbLastRefill, tbPc, tbWait, tbCalls, tbLog>>

varsAlerts == <<aQueue, aHistory, aPc, aNext, aEmits, aReader, aReads, aHanded, aSeen>>

vars == <<now, varsRetry, varsBreaker, varsGateway, varsMonitor, varsStops, varsGuard,
          varsBucket, varsAlerts>>

\* what the actions of one component leave alone
notRetry ==
    <<now, varsBreaker, varsGateway, varsMonitor, varsStops, varsGuard, varsBucket, varsAlerts>>
notBreaker ==
    <<varsRetry, varsGateway, varsMonitor, varsStops, varsGuard, varsBucket, varsAlerts>>
notGateway ==
    <<varsRetry, varsBreaker, varsMonitor, varsStops, varsGuard, varsBucket, varsAlerts>>
notMonitor ==
    <<now, varsRetry, varsBreaker, varsGateway, varsStops, varsGuard, varsBucket, varsAlerts>>
notBucket == <<now, varsRetry, varsBreaker, varsGateway, varsMonitor, varsStops, varsGuard, varsAlerts>>
notAlerts ==
    <<now, varsRetry, varsBreaker, varsGateway, varsMonitor, varsStops, varsGuard, varsBucket>>
notStops ==
    <<now, varsRetry, varsBreaker, varsGateway, varsMonitor, varsGuard, varsBucket, varsAlerts>>

-----------------------------------------------------------------------------
(* Bounds of the model *)

\* largest max_attempts a wrapper is built with
MaxAttempts == 3

\* the clock advances MaxTicks times at most
MaxTicks == 2

\* largest failure_threshold a breaker is built with
MaxThreshold == 2

\* threads calling through the breaker, and calls they start in all
NCbThreads == 2
MaxCbCalls == 5

\* threads calling the API client, and calls they start in all
NGwThreads == 2
MaxGwCalls == 2

\* threads calling RiskMonitor.start/stop, and start() calls they make in all
NMonCallers == 2
MaxStarts == 2

\* slices of 0.1 s the sleep of _loop is cut into, int(poll_interval * 10)
MaxSlices == 2

\* threads calling the token bucket, calls they start in all, and the
\* ticks of 1/rate seconds its clock advances at most
NTbThreads == 2
MaxTbCalls == 2
MaxTbTicks == 6

\* alerts emitted, threads reading alerts, and calls of get_alerts and
\* get_alert_history they make in all
MaxEmits == 2
NReaders == 2
MaxReads == 3

\* poll cycles started, and foreground calls (add_position, set_stop_loss,
\* set_trailing_stop) made in all
MaxCycles == 3
MaxPosCalls == 3

-----------------------------------------------------------------------------
(* Strings *)

UpperToLower ==
    ("A" :> "a") @@ ("B" :> "b") @@ ("C" :> "c") @@ ("D" :> "d") @@ ("E" :> "e") @@
    ("F" :> "f") @@ ("G" :> "g") @@ ("H" :> "h") @@ ("I" :> "i") @@ ("J" :> "j") @@
    ("K" :> "k") @@ ("L" :> "l") @@ ("M" :> "m") @@ ("N" :> "n") @@ ("O" :> "o") @@
    ("P" :> "p") @@ ("Q" :> "q") @@ ("R" :> "r") @@ ("S" :> "s") @@ ("T" :> "t") @@
    ("U" :> "u") @@ ("V" :> "v") @@ ("W" :> "w") @@ ("X" :> "x") @@ ("Y" :> "y") @@
    ("Z" :> "z")

\* str.lower()
lower(s) ==
    [i \in 1..Len(s) |-> IF s[i] \in DOMAIN UpperToLower THEN UpperToLower[s[i]] ELSE s[i]]

\* the substring test `p in s`
contains(s, p) ==
    \E i \in 0..(Len(s) - Len(p)) : SubSeq(s, i + 1, i + Len(p)) = p

-----------------------------------------------------------------------------
(* Error classification *)

TRANSIENT_PATTERNS_api ==
    { <<"s","e","r","v","i","c","e"," ","u","n","a","v","a","i","l","a","b","l","e">>,
      <<"g","a","t","e","w","a","y"," ","t","i","m","e","o","u","t">>,
      <<"b","a","d"," ","g","a","t","e","w","a","y">>,
      <<"t","o","o"," ","m","a","n","y"," ","r","e","q","u","e","s","t","s">>,
      <<"c","o","n","n","e","c","t","i","o","n"," ","r","e","s","e","t">>,
      <<"c","o","n","n","e","c","t","i","o","n"," ","r","e","f","u","s","e","d">>,
      <<"r","e","a","d"," ","t","i","m","e","d"," ","o","u","t">>,
      <<"t","e","m","p","o","r","a","r","y"," ","f","a","i","l","u","r","e">>,
      <<"5","0","3">>,
      <<"5","0","2">>,
      <<"5","0","4">>,
      <<"4","2","9">> }

PERMANENT_PATTERNS_api ==
    { <<"i","n","v","a","l","i","d"," ","s","e","s","s","i","o","n">>,
      <<"s","e","s","s","i","o","n"," ","e","x","p","i","r","e","d">>,
      <<"u","n","a","u","t","h","o","r","i","z","e","d">>,
      <<"i","n","v","a","l","i","d"," ","a","p","i"," ","k","e","y">>,
      <<"f","o","r","b","i","d","d","e","n">>,
      <<"n","o","t"," ","c","o","n","n","e","c","t","e","d">> }

TRANSIENT_PATTERNS_complete ==
    TRANSIENT_PATTERNS_api \cup
    { <<"n","e","t","w","o","r","k"," ","e","r","r","o","r">>,
      <<"t","i","m","e","o","u","t">> }

PERMANENT_PATTERNS_complete ==
    PERMANENT_PATTERNS_api \cup
    { <<"a","u","t","h","e","n","t","i","c","a","t","i","o","n"," ","f","a","i","l","e","d">>,
      <<"i","n","v","a","l","i","d"," ","c","r","e","d","e","n","t","i","a","l","s">> }

\* breeze_api._is_transient
_is_transient(e) == \E p \in TRANSIENT_PATTERNS_api : contains(lower(e), p)

\* breeze_api._is_permanent
_is_permanent(e) == \E p \in PERMANENT_PATTERNS_api : contains(lower(e), p)

\* breeze_api_complete.is_transient_error
is_transient_error(error) == \E p \in TRANSIENT_PATTERNS_complete : contains(lower(error), p)

\* breeze_api_complete.is_permanent_error
is_permanent_error(error) == \E p \in PERMANENT_PATTERNS_complete : contains(lower(error), p)

\* The messages the remote transport fails with in this model.
MSG_HTTP_503 == <<"H","T","T","P"," ","5","0","3">>
MSG_TIMEOUT == <<"T","i","m","e","o","u","t">>
MSG_SESSION_EXPIRED == <<"S","e","s","s","i","o","n"," ","E","x","p","i","r","e","d">>
MSG_NO_FUNDS == <<"N","o"," ","f","u","n","d","s">>
MSG_429_UNAUTHORIZED == <<"4","2","9"," ","U","n","a","u","t","h","o","r","i","z","e","d">>

Messages == { MSG_HTTP_503, MSG_TIMEOUT, MSG_SESSION_EXPIRED, MSG_NO_FUNDS,
              MSG_429_UNAUTHORIZED }

-----------------------------------------------------------------------------
(* Retry executors: breeze_api.retry_api_call and                           *)
(* breeze_api_complete.retry_with_backoff                                   *)

RetryImpls == {"retry_api_call", "retry_with_backoff"}

NoneStr == <<"N","o","n","e">>

Digits == <<"0","1","2","3","4","5","6","7","8","9">>

\* str(n) for a natural number
RECURSIVE str_int(_)
str_int(n) ==
    IF n < 10 THEN <<Digits[n + 1]>>
    ELSE str_int(n \div 10) \o <<Digits[(n % 10) + 1]>>

\* f"Failed after {max_attempts} attempts: {last_exc}"
FailedAfterMessage(max_attempts, last_exc) ==
    <<"F","a","i","l","e","d"," ","a","f","t","e","r"," ">> \o str_int(max_attempts) \o
    <<" ","a","t","t","e","m","p","t","s",":"," ">> \o
    (IF last_exc = <<>> THEN NoneStr ELSE last_exc)

\* what the wrapped function does when invoked: it returns a success
\* result, returns a failure payload carrying a message, or raises
Outcomes ==
    { [kind |-> "ok", msg |-> <<>>] } \cup
    { [kind |-> k, msg |-> m] : k \in {"payload", "raise"}, m \in Messages }

\* the value func returned
FuncResult(o) ==
    [success |-> (o.kind = "ok"), data |-> "data", message |-> o.msg,
     error_code |-> IF o.kind = "ok" THEN "None" ELSE "ERROR"]

PatternHit(impl, msg) ==
    IF impl = "retry_api_call"
    THEN \E p \in TRANSIENT_PATTERNS_api : contains(msg, p)
    ELSE \E p \in TRANSIENT_PATTERNS_complete : contains(msg, p)

\* the try branch: func returned `result` on attempt `attempt`
PayloadDecision(impl, result, attempt, max_attempts) ==
    IF ~result.success /\ PatternHit(impl, lower(result.message)) /\ attempt < max_attempts
    THEN "retry"
    ELSE "return_result"

IsPermanent(impl, e) ==
    IF impl = "retry_api_call" THEN _is_permanent(e) ELSE is_permanent_error(e)

\* RaiseDecision without the permanent-fault test (every fault is retried)
RaiseDecision_noPermanentTest(impl, e, attempt, max_attempts) ==
    IF attempt < max_attempts THEN "retry" ELSE "exhausted"

\* the except branch: func raised `e` on attempt `attempt`
RaiseDecision(impl, e, attempt, max_attempts) ==
    IF IsPermanent(impl, e) THEN "return_permanent"
    ELSE IF attempt < max_attempts THEN "retry"
    ELSE "exhausted"

PermanentResult(impl, e) ==
    [success |-> FALSE, data |-> "empty", message |-> e,
     error_code |-> IF impl = "retry_api_call" THEN "PERMANENT" ELSE "PERMANENT_ERROR"]

MaxRetriesResult(impl, max_attempts, last_exc) ==
    [success |-> FALSE, data |-> "empty",
     message |-> FailedAfterMessage(max_attempts, last_exc),
     error_code |-> IF impl = "retry_api_call" THEN "MAX_RETRIES" ELSE "MAX_RETRIES_EXCEEDED"]

NoResult == [success |-> FALSE, data |-> "unset", message |-> <<>>, error_code |-> "unset"]

NoLast == [kind |-> "none", msg |-> <<>>, attempt |-> 0, decision |-> "none"]

\* the delay arguments a wrapper is built with, delays in eighths of a
\* second: retry_api_call(initial_delay, backoff) and
\* retry_with_backoff(initial_delay, max_delay, backoff_factor, jitter);
\* 0.5 s and 1.0 s are the initial delays of the call sites, 30.0 s the
\* default max_delay
Policies(impl) ==
    IF impl = "retry_api_call"
    THEN [initial_delay : {4, 8}, backoff : {2}]
    ELSE [initial_delay : {4, 8}, max_delay : {8, 240}, backoff_factor : {2},
          jitter : BOOLEAN]

\* 0.5 + random.random(), in quarters: 0.5, 0.75, 1.0, 1.25
Jitters == {2, 3, 4, 5}

NoSleep == [k |-> 0, delay |-> 0, j |-> 0, secs |-> 0]

\* the argument of time.sleep: `delay` in retry_api_call; in
\* retry_with_backoff min(actual_delay, max_delay), where actual_delay is
\* delay, multiplied by j when jitter is set
SleepArg(impl, policy, delay, j) ==
    IF impl = "retry_api_call"
    THEN delay
    ELSE LET actual_delay == IF policy.jitter THEN (delay * j) \div 4 ELSE delay
         IN IF actual_delay < policy.max_delay THEN actual_delay ELSE policy.max_delay

\* the decision on an outcome of func was `decision`: on "retry" the wrapper
\* draws its jitter factor, if it has one, and calls time.sleep
BeginSleep(decision) ==
    IF decision = "retry"
    THEN \E j \in IF rImpl = "retry_with_backoff" /\ rPolicy.jitter THEN Jitters ELSE {4} :
            rSleep' = [k |-> rAttempt, delay |-> rDelay, j |-> j,
                       secs |-> SleepArg(rImpl, rPolicy, rDelay, j)]
    ELSE UNCHANGED rSleep

InitRetry ==
    /\ rImpl \in RetryImpls
    /\ rPolicy \in Policies(rImpl)
    /\ rDelay = rPolicy.initial_delay
    /\ rSleep = NoSleep
    /\ rMax \in 0..MaxAttempts
    /\ rPc = "loop"
    /\ rAttempt = 0
    /\ rLastExc = <<>>
    /\ rResult = NoResult
    /\ rInvocations = 0
    /\ rAllRaisedNonPerm = TRUE
    /\ rPermAt = 0
    /\ rLast = NoLast

\* `for attempt in range(1, max_attempts + 1)`: the next attempt, or the
\* return after the loop
RetryLoop ==
    /\ rPc = "loop"
    /\ IF rAttempt < rMax
       THEN /\ rAttempt' = rAttempt + 1
            /\ rPc' = "call"
            /\ UNCHANGED rResult
       ELSE /\ rPc' = "done"
            /\ rResult' = MaxRetriesResult(rImpl, rMax, rLastExc)
            /\ UNCHANGED rAttempt
    /\ UNCHANGED <<rImpl, rMax, rLastExc, rInvocations, rAllRaisedNonPerm, rPermAt, rLast>>
    /\ UNCHANGED <<rPolicy, rDelay, rSleep>>
    /\ UNCHANGED notRetry

\* func(*args, **kwargs) returns
RetryCallReturns(o) ==
    /\ rPc = "call"
    /\ o.kind \in {"ok", "payload"}
    /\ LET result == FuncResult(o)
           d == PayloadDecision(rImpl, result, rAttempt, rMax)
       IN /\ rInvocations' = rInvocations + 1
          /\ rAllRaisedNonPerm' = FALSE
          /\ rLast' = [kind |-> o.kind, msg |-> o.msg, attempt |-> rAttempt, decision |-> d]
          /\ IF d = "retry"
             THEN rPc' = "sleep" /\ UNCHANGED rResult
             ELSE rPc' = "done" /\ rResult' = result
          /\ BeginSleep(d)
    /\ UNCHANGED <<rImpl, rMax, rAttempt, rLastExc, rPermAt, rPolicy, rDelay>>
    /\ UNCHANGED notRetry

\* func(*args, **kwargs) raises
RetryCallRaises(o) ==
    /\ rPc = "call"
    /\ o.kind = "raise"
    /\ LET d == RaiseDecision(rImpl, o.msg, rAttempt, rMax)
       IN /\ rInvocations' = rInvocations + 1
          /\ rLastExc' = o.msg
          /\ rAllRaisedNonPerm' = (rAllRaisedNonPerm /\ ~IsPermanent(rImpl, o.msg))
          /\ rPermAt' = IF IsPermanent(rImpl, o.msg) /\ rPermAt = 0
                        THEN rInvocations + 1 ELSE rPermAt
          /\ rLast' = [kind |-> o.kind, msg |-> o.msg, attempt |-> rAttempt, decision |-> d]
          /\ CASE d = "return_permanent" ->
                    rPc' = "done" /\ rResult' = PermanentResult(rImpl, o.msg)
               [] d = "retry" -> rPc' = "sleep" /\ UNCHANGED rResult
               [] OTHER -> rPc' = "loop" /\ UNCHANGED rResult
          /\ BeginSleep(d)
    /\ UNCHANGED <<rImpl, rMax, rAttempt, rPolicy, rDelay>>
    /\ UNCHANGED notRetry

\* time.sleep(...) returns; `delay *= backoff` / `delay *= backoff_factor`
RetrySleep ==
    /\ rPc = "sleep"
    /\ rPc' = "loop"
    /\ rDelay' = rDelay * (IF rImpl = "retry_api_call" THEN rPolicy.backoff
                                                      ELSE rPolicy.backoff_factor)
    /\ rSleep' = NoSleep
    /\ UNCHANGED <<rImpl, rMax, rAttempt, rLastExc, rResult,
                   rInvocations, rAllRaisedNonPerm, rPermAt, rLast, rPolicy>>
    /\ UNCHANGED notRetry

NextRetry ==
    \/ RetryLoop
    \/ \E o \in Outcomes : RetryCallReturns(o)
    \/ \E o \in Outcomes : RetryCallRaises(o)
    \/ RetrySleep

-----------------------------------------------------------------------------
(* The wall clock *)

\* the granularity of the clock: half of the 60 s that both the
\* breaker's recovery timeout and the idempotency window last
TickStep == 60 \div 2

\* time passes between any two steps of any thread
Tick ==
    /\ now + TickStep <= MaxTicks * TickStep
    /\ now' = now + TickStep
    /\ gLive' = {r \in gLive : now' - r.at < 60}
    /\ UNCHANGED <<varsRetry, varsBreaker, varsMonitor, varsStops, varsGuard, varsBucket,
                   varsAlerts>>
    /\ UNCHANGED <<gClient, gConnected, gRecent, gApiLock, gTokens,
                   gLastRefill, gCacheAt, gPc, gCall, gDone, gTransportFailing, gCalls>>

-----------------------------------------------------------------------------
(* breeze_api_complete.CircuitBreaker *)

CbThreads == 1..NCbThreads

\* recovery_timeout, in seconds
recovery_timeout == 60

\* last_failure_time = None
NoTime == -1

NoCall == [admState |-> "none", admNow |-> 0, admLastFailure |-> NoTime,
           invoked |-> FALSE, outcome |-> "none"]

InitBreaker ==
    /\ cbThreshold \in 1..MaxThreshold
    /\ cbState = "CLOSED"
    /\ cbFailureCount = 0
    /\ cbLastFailureTime = NoTime
    /\ cbPc = [t \in CbThreads |-> "idle"]
    /\ cbCall = [t \in CbThreads |-> NoCall]
    /\ cbConsec = 0
    /\ cbLastEvent = [kind |-> "none", prevState |-> "CLOSED", at |-> 0]
    /\ cbCalls = 0

\* CircuitBreaker.call, the state check with a reversed time comparison
CbAdmission_reversed(state, last_failure_time, time) ==
    IF state = "OPEN"
    THEN IF time - last_failure_time <= recovery_timeout THEN "half_open" ELSE "raise"
    ELSE "pass"

\* CircuitBreaker.call, the state check made under the lock
CbAdmission(state, last_failure_time, time) ==
    IF state = "OPEN"
    THEN IF time - last_failure_time >= recovery_timeout THEN "half_open" ELSE "raise"
    ELSE "pass"

\* _on_failure with `>` for `>=`
StateAfterFailure_strict(state, failure_count, failure_threshold) ==
    IF failure_count > failure_threshold THEN "OPEN" ELSE state

\* _on_failure: the state once failure_count has been incremented
StateAfterFailure(state, failure_count, failure_threshold) ==
    IF failure_count >= failure_threshold THEN "OPEN" ELSE state

\* _on_success that leaves the state as it is
StateAfterSuccess_kept(state) == state

\* _on_success: the state
StateAfterSuccess(state) ==
    IF state = "HALF_OPEN" THEN "CLOSED" ELSE state

\* _on_success that leaves failure_count as it is
CountAfterSuccess_kept(failure_count) == failure_count

\* _on_success: `self.failure_count = 0`
CountAfterSuccess(failure_count) == 0

\* call(): `with self._lock: if self.state == "OPEN": ...`
CbAdmit(t) ==
    /\ cbPc[t] = "idle"
    /\ cbCalls < MaxCbCalls
    /\ cbCalls' = cbCalls + 1
    /\ LET a == CbAdmission(cbState, cbLastFailureTime, now)
           seen == [admState |-> cbState, admNow |-> now,
                    admLastFailure |-> cbLastFailureTime,
                    invoked |-> FALSE, outcome |-> "pending"]
       IN CASE a = "raise" ->
                 \* raise Exception("Circuit breaker is OPEN")
                 /\ cbCall' = [cbCall EXCEPT ![t] = [seen EXCEPT !.outcome = "circuit_open"]]
                 /\ UNCHANGED <<cbPc, cbState, cbLastEvent>>
            [] a = "half_open" ->
                 /\ cbState' = "HALF_OPEN"
                 /\ cbPc' = [cbPc EXCEPT ![t] = "admitted"]
                 /\ cbCall' = [cbCall EXCEPT ![t] = seen]
                 /\ cbLastEvent' = [kind |-> "half_open", prevState |-> cbState, at |-> 0]
            [] OTHER ->
                 /\ cbPc' = [cbPc EXCEPT ![t] = "admitted"]
                 /\ cbCall' = [cbCall EXCEPT ![t] = seen]
                 /\ UNCHANGED <<cbState, cbLastEvent>>
    /\ UNCHANGED <<cbThreshold, cbFailureCount, cbLastFailureTime, cbConsec, now>>
    /\ UNCHANGED notBreaker

\* call(): `result = func(*args, **kwargs)` starts
CbInvoke(t) ==
    /\ cbPc[t] = "admitted"
    /\ cbPc' = [cbPc EXCEPT ![t] = "running"]
    /\ cbCall' = [cbCall EXCEPT ![t].invoked = TRUE]
    /\ UNCHANGED <<cbThreshold, cbState, cbFailureCount, cbLastFailureTime,
                   cbConsec, cbLastEvent, cbCalls, now>>
    /\ UNCHANGED notBreaker

\* func returned: _on_success(), return result
CbOnSuccess(t) ==
    /\ cbPc[t] = "running"
    /\ cbFailureCount' = CountAfterSuccess(cbFailureCount)
    /\ cbState' = StateAfterSuccess(cbState)
    /\ cbPc' = [cbPc EXCEPT ![t] = "idle"]
    /\ cbCall' = [cbCall EXCEPT ![t] = NoCall]
    /\ cbConsec' = 0
    /\ cbLastEvent' = [kind |-> "success", prevState |-> cbState, at |-> 0]
    /\ UNCHANGED <<cbThreshold, cbLastFailureTime, cbCalls, now>>
    /\ UNCHANGED notBreaker

\* func raised: _on_failure(), raise
CbOnFailure(t) ==
    /\ cbPc[t] = "running"
    /\ cbFailureCount' = cbFailureCount + 1
    /\ cbLastFailureTime' = now
    /\ cbState' = StateAfterFailure(cbState, cbFailureCount + 1, cbThreshold)
    /\ cbPc' = [cbPc EXCEPT ![t] = "idle"]
    /\ cbCall' = [cbCall EXCEPT ![t] = NoCall]
    /\ cbConsec' = cbConsec + 1
    /\ cbLastEvent' = [kind |-> "failure", prevState |-> cbState, at |-> now]
    /\ UNCHANGED <<cbThreshold, cbCalls, now>>
    /\ UNCHANGED notBreaker

NextBreaker ==
    \/ \E t \in CbThreads : CbAdmit(t)
    \/ \E t \in CbThreads : CbInvoke(t)
    \/ \E t \in CbThreads : CbOnSuccess(t)
    \/ \E t \in CbThreads : CbOnFailure(t)
    \/ Tick

-----------------------------------------------------------------------------
(* breeze_api_complete.TokenBucketRateLimiter(rate=5.0, capacity=10),       *)
(* refill_interval = 1.0.  The clock tbClock counts units of 1/rate         *)
(* seconds, so that refill_interval lasts refill_interval * bucket_rate     *)
(* units and (elapsed / refill_interval) * rate is elapsed units divided by *)
(* refill_interval, a whole number of tokens.                               *)

\* TokenBucketRateLimiter(rate=5.0, capacity=10), refill_interval = 1.0
bucket_rate == 5
bucket_capacity == 10
refill_interval == 1

TbThreads == 1..NTbThreads

\* the `tokens` argument of acquire and wait_for_token
TbAmounts == {1, 3, bucket_capacity}

\* the `timeout` argument of wait_for_token, in units of 1/rate seconds
TbTimeouts == {2}

\* _refill without the cap
refill_uncapped(tokens, last_refill, time) ==
    IF time - last_refill >= refill_interval * bucket_rate
    THEN [tokens |-> tokens + (time - last_refill) \div refill_interval,
          last_refill |-> time]
    ELSE [tokens |-> tokens, last_refill |-> last_refill]

\* TokenBucketRateLimiter._refill
refill(tokens, last_refill, time) ==
    IF time - last_refill >= refill_interval * bucket_rate
    THEN [tokens |-> IF tokens + (time - last_refill) \div refill_interval > bucket_capacity
                     THEN bucket_capacity
                     ELSE tokens + (time - last_refill) \div refill_interval,
          last_refill |-> time]
    ELSE [tokens |-> tokens, last_refill |-> last_refill]

NoAcquire == [tokens |-> 0, result |-> FALSE, at |-> NoTime, drainAt |-> NoTime]

NoWait == [tokens |-> 0, start |-> 0, timeout |-> 0]

InitBucket ==
    /\ tbClock = 0
    /\ tbTokens = bucket_capacity
    /\ tbLastRefill = 0
    /\ tbPc = [t \in TbThreads |-> "idle"]
    /\ tbWait = [t \in TbThreads |-> NoWait]
    /\ tbCalls = 0
    /\ tbLog = [burst |-> 0, drainAt |-> NoTime, last |-> NoAcquire, grants |-> <<>>]

\* acquire(tokens), under self._lock: refill, then take the tokens if they
\* are there.  The history keeps the tokens taken at this instant, the
\* instant at which bucket_capacity of them were taken, and this call if it
\* is the first acquire(1) after such a drain, and every grant made so far
Acquire(n) ==
    LET b == refill(tbTokens, tbLastRefill, tbClock)
        ok == b.tokens >= n
        burst == IF ok THEN tbLog.burst + n ELSE tbLog.burst
    IN /\ tbTokens' = IF ok THEN b.tokens - n ELSE b.tokens
       /\ tbLastRefill' = b.last_refill
       /\ tbLog' = [burst |-> burst,
                    drainAt |-> IF burst >= bucket_capacity THEN tbClock ELSE NoTime,
                    last |-> IF n = 1 /\ tbLog.drainAt # NoTime
                             THEN [tokens |-> n, result |-> ok, at |-> tbClock,
                                   drainAt |-> tbLog.drainAt]
                             ELSE NoAcquire,
                    grants |-> IF ok THEN Append(tbLog.grants, [at |-> tbClock, tokens |-> n])
                               ELSE tbLog.grants]

\* a thread calls acquire(n)
TbAcquire(t, n) ==
    /\ tbPc[t] = "idle"
    /\ tbCalls < MaxTbCalls
    /\ tbCalls' = tbCalls + 1
    /\ Acquire(n)
    /\ UNCHANGED <<tbClock, tbPc, tbWait>>
    /\ UNCHANGED notBucket

\* wait_for_token that goes on polling whatever acquire returned
WaitReturns_never(acquired) == FALSE

\* wait_for_token: `if self.acquire(tokens): return`
WaitReturns(acquired) == acquired

\* a thread calls wait_for_token(n, timeout): `start = time.time()`
TbWaitCall(t, n, timeout) ==
    /\ tbPc[t] = "idle"
    /\ tbCalls < MaxTbCalls
    /\ tbCalls' = tbCalls + 1
    /\ tbWait' = [tbWait EXCEPT ![t] = [tokens |-> n, start |-> tbClock, timeout |-> timeout]]
    /\ tbPc' = [tbPc EXCEPT ![t] = "while"]
    /\ UNCHANGED <<tbClock, tbTokens, tbLastRefill, tbLog>>
    /\ UNCHANGED notBucket

\* `while time.time() - start < timeout:`, and after the loop
\* `raise TimeoutError(...)`
TbWaitTest(t) ==
    /\ tbPc[t] = "while"
    /\ IF tbClock - tbWait[t].start < tbWait[t].timeout
       THEN /\ tbPc' = [tbPc EXCEPT ![t] = "acquire"]
            /\ UNCHANGED tbWait
       ELSE /\ tbPc' = [tbPc EXCEPT ![t] = "idle"]
            /\ tbWait' = [tbWait EXCEPT ![t] = NoWait]
    /\ UNCHANGED <<tbClock, tbTokens, tbLastRefill, tbCalls, tbLog>>
    /\ UNCHANGED notBucket

\* `if self.acquire(tokens): return`, else on to time.sleep(0.1)
TbWaitTry(t) ==
    /\ tbPc[t] = "acquire"
    /\ Acquire(tbWait[t].tokens)
    /\ IF WaitReturns(refill(tbTokens, tbLastRefill, tbClock).tokens >= tbWait[t].tokens)
       THEN /\ tbPc' = [tbPc EXCEPT ![t] = "idle"]
            /\ tbWait' = [tbWait EXCEPT ![t] = NoWait]
       ELSE /\ tbPc' = [tbPc EXCEPT ![t] = "sleep"]
            /\ UNCHANGED tbWait
    /\ UNCHANGED <<tbClock, tbCalls>>
    /\ UNCHANGED notBucket

\* time.sleep(0.1) returns
TbWaitSleep(t) ==
    /\ tbPc[t] = "sleep"
    /\ tbPc' = [tbPc EXCEPT ![t] = "while"]
    /\ UNCHANGED <<tbClock, tbTokens, tbLastRefill, tbWait, tbCalls, tbLog>>
    /\ UNCHANGED notBucket

\* 1/rate seconds pass
TbTick ==
    /\ tbClock < MaxTbTicks
    /\ tbClock' = tbClock + 1
    /\ tbLog' = [tbLog EXCEPT !.burst = 0]
    /\ UNCHANGED <<tbTokens, tbLastRefill, tbPc, tbWait, tbCalls>>
    /\ UNCHANGED notBucket

\* wait_for_token called while the clock of the model has the time of its
\* timeout left
TbWaitInTime(t, n, timeout) ==
    /\ tbClock + timeout <= MaxTbTicks
    /\ TbWaitCall(t, n, timeout)

\* the steps of thread t inside wait_for_token
TbWaitSteps(t) ==
    \/ TbWaitTest(t)
    \/ TbWaitTry(t)
    \/ TbWaitSleep(t)

\* the threads that call wait_for_token: two, so that one can take the
\* tokens the other waits for
Waiters == {1, 2}

\* the limiter called through wait_for_token only, also for more tokens than
\* the bucket holds
NextBucketWaits ==
    \/ \E t \in Waiters, n \in {3, bucket_capacity, bucket_capacity + 1}, timeout \in TbTimeouts :
          TbWaitInTime(t, n, timeout)
    \/ \E t \in Waiters : TbWaitTest(t)
    \/ \E t \in Waiters : TbWaitTry(t)
    \/ \E t \in Waiters : TbWaitSleep(t)
    \/ TbTick

NextBucket ==
    \/ \E t \in TbThreads, n \in TbAmounts : TbAcquire(t, n)
    \/ \E t \in TbThreads, n \in TbAmounts, timeout \in TbTimeouts : TbWaitCall(t, n, timeout)
    \/ \E t \in TbThreads : TbWaitTest(t)
    \/ \E t \in TbThreads : TbWaitTry(t)
    \/ \E t \in TbThreads : TbWaitSleep(t)
    \/ TbTick

-----------------------------------------------------------------------------
(* The API clients: breeze_api.BreezeAPIClient and                          *)
(* breeze_api_complete.CompleteBreezeClient                                 *)

GwThreads == 1..NGwThreads

Clients == {"BreezeAPIClient", "CompleteBreezeClient"}

WriteOps == {"place_order", "cancel_order", "modify_order"}

Ops == WriteOps \cup {"get_quotes"}

\* the order signatures (stock_code, strike, option_type, action, quantity)
\* that callers submit
Orders ==
    { [stock_code |-> "NIFTY", strike |-> 22000, option_type |-> "CE",
       action |-> "sell", quantity |-> 50],
      [stock_code |-> "NIFTY", strike |-> 22000, option_type |-> "PE",
       action |-> "sell", quantity |-> 50] }

\* IdempotencyGuard(60): _window
_window == 60

\* IdempotencyGuard.make_key: the digest of the signature and of the minute
\* strftime("%Y%m%d%H%M") of the call; the 64-bit digest is taken to be
\* collision-free, so a key is the pair it is computed from
make_key(order, time) == <<order, time \div 60>>

\* check_and_reserve with the age test reversed
LiveEntries_reversed(recent, time) == {r \in recent : time - r.at >= _window}

\* check_and_reserve: `{k: t for k, t in self._recent.items() if now - t < self._window}`
LiveEntries(recent, time) == {r \in recent : time - r.at < _window}

\* a refusal that stamps the reservation again
AfterDuplicate_restamped(live, key, time) ==
    {r \in live : r.key # key} \cup {[key |-> key, at |-> time]}

\* check_and_reserve, `if key in self._recent: ... return False`: the
\* entries that were kept stay as they are
AfterDuplicate(live, key, time) == live

\* release that leaves the key where it is
Released_kept(recent, key) == recent

\* release: `self._recent.pop(key, None)`
Released(recent, key) == {r \in recent : r.key # key}

\* @retry_api_call(max_attempts=2) / @retry_with_backoff(max_attempts=3) on get_quotes
get_quotes_attempts_api == 2
get_quotes_attempts_complete == 3

ReadAttempts(client) ==
    IF client = "BreezeAPIClient" THEN get_quotes_attempts_api
    ELSE get_quotes_attempts_complete

ReadImpl(client) ==
    IF client = "BreezeAPIClient" THEN "retry_api_call" ELSE "retry_with_backoff"

\* _get_cached(cache_key, ttl=5)
quotes_ttl == 5

\* C.ErrorMessages.NOT_CONNECTED, also the text CompleteBreezeClient raises
NOT_CONNECTED ==
    <<"N","o","t"," ","c","o","n","n","e","c","t","e","d"," ","t","o"," ",
      "B","r","e","e","z","e"," ","A","P","I">>

\* the faults the remote transport raises in this model
GwFaults == {MSG_HTTP_503, MSG_SESSION_EXPIRED, MSG_NO_FUNDS}

\* wait_for_token(tokens=1, timeout=30.0) and the text of its TimeoutError
wait_timeout == 30

MSG_NO_TOKEN ==
    <<"C","o","u","l","d"," ","n","o","t"," ","a","c","q","u","i","r","e"," ",
      "1"," ","t","o","k","e","n","s"," ","w","i","t","h","i","n"," ",
      "3","0",".","0","s">>

NoKey == <<>>

GwNoCall ==
    [op |-> "none", order |-> <<>>, argsOk |-> TRUE, key |-> NoKey, attempt |-> 0, tcalls |-> 0,
     sawLive |-> FALSE, fault |-> "none", returned |-> "none",
     success |-> FALSE, error_code |-> "none", start |-> 0, timeouts |-> 0,
     acquired |-> 0, refusedAt |-> NoTime]

InitGateway ==
    /\ gClient \in Clients
    /\ gConnected \in BOOLEAN
    /\ gRecent = {}
    /\ gApiLock = 0
    /\ gTokens = bucket_capacity
    /\ gLastRefill = 0
    /\ gCacheAt = NoTime
    /\ gPc = [t \in GwThreads |-> "idle"]
    /\ gCall = [t \in GwThreads |-> GwNoCall]
    /\ gDone = GwNoCall
    /\ gLive = {}
    /\ gTransportFailing = FALSE
    /\ gCalls = 0

\* thread t's call is over: c is what the caller got (the attempt it ended
\* in is kept for the calls that found the client not connected)
Finish(t, c) ==
    /\ gDone' = [c EXCEPT !.order = <<>>, !.argsOk = TRUE, !.acquired = 0,
                          !.attempt = IF c.fault = "connection" THEN @ ELSE 0]
    /\ gCall' = [gCall EXCEPT ![t] = GwNoCall]
    /\ gPc' = [gPc EXCEPT ![t] = "idle"]

\* the call returned a result dict
Returns(c, success, code) ==
    [c EXCEPT !.returned = "result", !.success = success, !.error_code = code]

\* an exception left the call
Escapes(c, exc) ==
    [c EXCEPT !.returned = "exception", !.success = FALSE, !.error_code = exc]

\* what the retry decorator of a read returns or does when the body raised e
ReadRaised(t, c, e) ==
    LET d == RaiseDecision(ReadImpl(gClient), e, c.attempt, ReadAttempts(gClient))
    IN CASE d = "return_permanent" ->
              Finish(t, Returns(c, FALSE, PermanentResult(ReadImpl(gClient), e).error_code))
         [] d = "retry" ->
              /\ gCall' = [gCall EXCEPT ![t] = c]
              /\ gPc' = [gPc EXCEPT ![t] = "sleep"]
              /\ UNCHANGED gDone
         [] OTHER ->
              Finish(t, Returns(c, FALSE, MaxRetriesResult(ReadImpl(gClient), ReadAttempts(gClient), e).error_code))

\* _get_cached(key, ttl=5) finds the quote
CacheHit == gCacheAt # NoTime /\ now - gCacheAt < quotes_ttl

\* a method body whose _require_connection() lets an unconnected client through
Body_unchecked(t, c) ==
    IF FALSE
    THEN \* raise ConnectionError(NOT_CONNECTED)
         IF c.op = "get_quotes"
         THEN ReadRaised(t, [c EXCEPT !.fault = "connection"], NOT_CONNECTED)
         ELSE Finish(t, Escapes([c EXCEPT !.fault = "connection"], "ConnectionError"))
    ELSE CASE c.op = "place_order" /\ gClient = "BreezeAPIClient" ->
                /\ gCall' = [gCall EXCEPT ![t] = [c EXCEPT !.key = make_key(c.order, now)]]
                /\ gPc' = [gPc EXCEPT ![t] = "reserve"]
                /\ UNCHANGED gDone
           [] c.op = "place_order" /\ gClient = "CompleteBreezeClient" /\ ~c.argsOk ->
                \* action.upper() in the log line raises
                Finish(t, Escapes([c EXCEPT !.fault = "args"], "AttributeError"))
           [] c.op = "get_quotes" /\ gClient = "CompleteBreezeClient" /\ CacheHit ->
                Finish(t, Returns(c, TRUE, "None"))
           [] OTHER ->
                /\ gCall' = [gCall EXCEPT ![t] = c]
                /\ gPc' = [gPc EXCEPT ![t] = "lock"]
                /\ UNCHANGED gDone

\* the start of a method body: _require_connection(), then for place_order
\* the key (BreezeAPIClient) or the log line (CompleteBreezeClient), for
\* CompleteBreezeClient.get_quotes the cache lookup
Body(t, c) ==
    IF ~gConnected
    THEN \* raise ConnectionError(NOT_CONNECTED)
         IF c.op = "get_quotes"
         THEN ReadRaised(t, [c EXCEPT !.fault = "connection"], NOT_CONNECTED)
         ELSE Finish(t, Escapes([c EXCEPT !.fault = "connection"], "ConnectionError"))
    ELSE CASE c.op = "place_order" /\ gClient = "BreezeAPIClient" ->
                /\ gCall' = [gCall EXCEPT ![t] = [c EXCEPT !.key = make_key(c.order, now)]]
                /\ gPc' = [gPc EXCEPT ![t] = "reserve"]
                /\ UNCHANGED gDone
           [] c.op = "place_order" /\ gClient = "CompleteBreezeClient" /\ ~c.argsOk ->
                \* action.upper() in the log line raises
                Finish(t, Escapes([c EXCEPT !.fault = "args"], "AttributeError"))
           [] c.op = "get_quotes" /\ gClient = "CompleteBreezeClient" /\ CacheHit ->
                Finish(t, Returns(c, TRUE, "None"))
           [] OTHER ->
                /\ gCall' = [gCall EXCEPT ![t] = c]
                /\ gPc' = [gPc EXCEPT ![t] = "lock"]
                /\ UNCHANGED gDone

\* a caller invokes one of the client's methods
GwCall(t, op, order, argsOk) ==
    /\ gPc[t] = "idle"
    /\ gCalls < MaxGwCalls
    /\ gCalls' = gCalls + 1
    /\ op = "place_order" \/ (order = <<>> /\ argsOk)
    /\ op = "place_order" => order \in Orders
    /\ Body(t, [op |-> op, order |-> order, argsOk |-> argsOk, key |-> NoKey,
                attempt |-> 1, tcalls |-> 0, sawLive |-> FALSE, fault |-> "none",
                returned |-> "pending", success |-> FALSE, error_code |-> "none",
                start |-> 0, timeouts |-> 0, acquired |-> 0, refusedAt |-> NoTime])
    /\ UNCHANGED <<gClient, gConnected, gRecent, gApiLock, gTokens,
                   gLastRefill, gCacheAt, gLive, gTransportFailing, now>>
    /\ UNCHANGED notGateway

\* BreezeAPIClient.place_order: idempotency.check_and_reserve(idem_key), and
\* on success the first statement of the try block
GwReserve(t) ==
    /\ gPc[t] = "reserve"
    /\ LET c == gCall[t]
           live == LiveEntries(gRecent, now)
           seen == [c EXCEPT !.sawLive = \E r \in gLive : r.key = c.key /\ now - r.at < 60]
       IN IF \E r \in live : r.key = c.key
          THEN /\ gRecent' = AfterDuplicate(live, c.key, now)
               /\ Finish(t, Returns([seen EXCEPT !.refusedAt = now], FALSE, "DUPLICATE_ORDER"))
               /\ UNCHANGED gLive
          ELSE /\ gRecent' = live \cup {[key |-> c.key, at |-> now]}
               /\ gLive' = gLive \cup {[key |-> c.key, at |-> now]}
               /\ UNCHANGED gDone
               /\ IF c.argsOk
                  THEN /\ gCall' = [gCall EXCEPT ![t] = seen]
                       /\ gPc' = [gPc EXCEPT ![t] = "lock"]
                  ELSE \* option_type.upper() raises inside the try block
                       /\ gCall' = [gCall EXCEPT ![t] = [seen EXCEPT !.fault = "args"]]
                       /\ gPc' = [gPc EXCEPT ![t] = "except"]
    /\ UNCHANGED <<gClient, gConnected, gApiLock, gTokens,
                   gLastRefill, gCacheAt, gTransportFailing, gCalls, now>>
    /\ UNCHANGED notGateway

\* `with self._api_lock:`, and for CompleteBreezeClient the first statement
\* of wait_for_token, `start = time.time()`
GwAcquireLock(t) ==
    /\ gPc[t] = "lock"
    /\ gApiLock = 0
    /\ gApiLock' = t
    /\ gPc' = [gPc EXCEPT ![t] = "wait"]
    /\ gCall' = [gCall EXCEPT ![t].start =
                   IF gClient = "CompleteBreezeClient" THEN now ELSE 0]
    /\ UNCHANGED <<gClient, gConnected, gRecent, gTokens, gLastRefill,
                   gCacheAt, gLive, gTransportFailing, gCalls, now>>
    /\ UNCHANGED gDone
    /\ UNCHANGED notGateway

\* TokenBucketRateLimiter._refill
Refilled(tokens, last_refill, time) ==
    IF time - last_refill >= refill_interval
    THEN [tokens |-> IF tokens + ((time - last_refill) \div refill_interval) * bucket_rate
                        > bucket_capacity
                     THEN bucket_capacity
                     ELSE tokens + ((time - last_refill) \div refill_interval) * bucket_rate,
          last_refill |-> time]
    ELSE [tokens |-> tokens, last_refill |-> last_refill]

\* BreezeAPIClient: rate_limiter.wait() sleeps less than a second, which the
\* clock of this model does not resolve, and returns.  CompleteBreezeClient: rate_limiter.wait_for_token(),
\* which returns once the while test has passed and acquire(1) succeeds
GwRateLimit(t) ==
    /\ gPc[t] = "wait"
    /\ IF gClient = "BreezeAPIClient"
       THEN UNCHANGED <<gTokens, gLastRefill>>
       ELSE LET b == Refilled(gTokens, gLastRefill, now)
            IN /\ now - gCall[t].start < wait_timeout
               /\ b.tokens >= 1
               /\ gTokens' = b.tokens - 1
               /\ gLastRefill' = b.last_refill
    /\ gPc' = [gPc EXCEPT ![t] = "send"]
    /\ gCall' = [gCall EXCEPT ![t].start = 0, ![t].acquired = gCall[t].attempt]
    /\ UNCHANGED <<gClient, gConnected, gRecent, gApiLock, gCacheAt,
                   gLive, gTransportFailing, gCalls, now>>
    /\ UNCHANGED gDone
    /\ UNCHANGED notGateway

\* wait_for_token that returns when its time is up
AfterWaitExpired_returns(tokens) == "return"

\* wait_for_token once its while test has failed:
\* `raise TimeoutError(f"Could not acquire {tokens} tokens within {timeout}s")`
AfterWaitExpired(tokens) == "raise"

\* CompleteBreezeClient, wait_for_token: the while test `time.time() - start
\* < timeout` fails, TimeoutError is raised and leaves the `with` block (the
\* lock is released); what happens to it depends on the method
GwRateTimeout(t) ==
    /\ gPc[t] = "wait"
    /\ gClient = "CompleteBreezeClient"
    /\ now - gCall[t].start >= wait_timeout
    /\ LET c == [gCall[t] EXCEPT !.fault = "limiter", !.start = 0, !.timeouts = @ + 1]
       IN IF AfterWaitExpired(1) = "raise"
          THEN /\ gApiLock' = 0
               /\ IF c.op = "get_quotes"
                  THEN ReadRaised(t, c, MSG_NO_TOKEN)
                  ELSE \* CompleteBreezeClient's write methods catch nothing
                       Finish(t, Escapes(c, "TimeoutError"))
          ELSE /\ gCall' = [gCall EXCEPT ![t] = c]
               /\ gPc' = [gPc EXCEPT ![t] = "send"]
               /\ UNCHANGED <<gApiLock, gDone>>
    /\ UNCHANGED <<gClient, gConnected, gRecent, gTokens, gLastRefill,
                   gCacheAt, gLive, gTransportFailing, gCalls, now>>
    /\ UNCHANGED notGateway

\* self.breeze.<method>(...) is called: the request leaves for the remote service
GwSend(t) ==
    /\ gPc[t] = "send"
    /\ gCall' = [gCall EXCEPT ![t].tcalls = @ + 1]
    /\ gPc' = [gPc EXCEPT ![t] = "inflight"]
    /\ UNCHANGED <<gClient, gConnected, gRecent, gApiLock, gTokens,
                   gLastRefill, gCacheAt, gLive, gTransportFailing, gCalls, now>>
    /\ UNCHANGED gDone
    /\ UNCHANGED notGateway

\* the transport call returns: the lock is released, the method returns _ok
GwTransportReturns(t) ==
    /\ gPc[t] = "inflight"
    /\ gApiLock' = 0
    /\ gCacheAt' = IF gClient = "CompleteBreezeClient" /\ gCall[t].op = "get_quotes"
                   THEN now ELSE gCacheAt
    /\ Finish(t, Returns(gCall[t], TRUE, "None"))
    /\ gTransportFailing' = FALSE
    /\ UNCHANGED <<gClient, gConnected, gRecent, gTokens, gLastRefill,
                   gLive, gCalls, now>>
    /\ UNCHANGED notGateway

\* the transport call raises e: the lock is released; what happens to the
\* exception depends on the method
GwTransportRaises(t, e) ==
    /\ gPc[t] = "inflight"
    /\ gApiLock' = 0
    /\ gTransportFailing' = TRUE
    /\ LET c == [gCall[t] EXCEPT !.fault = "transport"]
       IN CASE c.op = "get_quotes" -> ReadRaised(t, c, e)
            [] c.op = "place_order" /\ gClient = "BreezeAPIClient" ->
                 /\ gCall' = [gCall EXCEPT ![t] = c]
                 /\ gPc' = [gPc EXCEPT ![t] = "except"]
                 /\ UNCHANGED gDone
            [] c.op \in {"cancel_order", "modify_order"} /\ gClient = "BreezeAPIClient" ->
                 \* except Exception as e: return self._err(...)
                 Finish(t, Returns(c, FALSE, "None"))
            [] OTHER ->
                 \* CompleteBreezeClient's write methods catch nothing
                 Finish(t, Escapes(c, "Exception"))
    /\ UNCHANGED <<gClient, gConnected, gRecent, gTokens, gLastRefill,
                   gCacheAt, gLive, gCalls, now>>
    /\ UNCHANGED notGateway

\* BreezeAPIClient.place_order: `except Exception as e:` releases the key
\* and returns ORDER_FAILED
GwExcept(t) ==
    /\ gPc[t] = "except"
    /\ gRecent' = Released(gRecent, gCall[t].key)
    /\ gLive' = {r \in gLive : r.key # gCall[t].key}
    /\ Finish(t, Returns(gCall[t], FALSE, "ORDER_FAILED"))
    /\ UNCHANGED <<gClient, gConnected, gApiLock, gTokens, gLastRefill,
                   gCacheAt, gTransportFailing, gCalls, now>>
    /\ UNCHANGED notGateway

\* the retry decorator of a read has slept: next attempt, the body again
GwRetry(t) ==
    /\ gPc[t] = "sleep"
    /\ Body(t, [gCall[t] EXCEPT !.attempt = @ + 1, !.fault = "none"])
    /\ UNCHANGED <<gClient, gConnected, gRecent, gApiLock, gTokens,
                   gLastRefill, gCacheAt, gLive, gTransportFailing, gCalls, now>>
    /\ UNCHANGED notGateway

\* the keys callers of the guard present
GuardKeys == {make_key(o, 0) : o \in Orders}

\* a key as the guard's callers have left it: never reserved, reserved and
\* not released since ("held", since heldAt), or released; and the last
\* check_and_reserve on it
NoCheckYet ==
    [state |-> "never", heldAt |-> NoTime, result |-> "none", at |-> NoTime,
     before |-> "never", beforeAt |-> NoTime]

InitGuard == iGuard = [k \in GuardKeys |-> NoCheckYet]

notGuard == <<varsRetry, varsBreaker, varsMonitor, varsStops, varsBucket, varsAlerts>>

guardOnly == <<gClient, gConnected, gApiLock, gTokens, gLastRefill, gCacheAt,
               gPc, gCall, gDone, gLive, gTransportFailing, gCalls>>

\* IdempotencyGuard.check_and_reserve(key), under self._lock
check_and_reserve(key) ==
    /\ LET live == LiveEntries(gRecent, now)
           result == ~(\E r \in live : r.key = key)
           g == iGuard[key]
       IN /\ gRecent' = IF result THEN live \cup {[key |-> key, at |-> now]}
                        ELSE AfterDuplicate(live, key, now)
          /\ iGuard' = [iGuard EXCEPT ![key] =
                [state |-> IF result THEN "held" ELSE g.state,
                 heldAt |-> IF result THEN now ELSE g.heldAt,
                 result |-> IF result THEN "True" ELSE "False",
                 at |-> now, before |-> g.state, beforeAt |-> g.heldAt]]
    /\ UNCHANGED <<now, guardOnly, notGuard>>

\* IdempotencyGuard.release(key), under self._lock
release(key) ==
    /\ gRecent' = Released(gRecent, key)
    /\ iGuard' = [iGuard EXCEPT ![key].state = IF @ = "never" THEN "never" ELSE "released",
                                ![key].heldAt = NoTime]
    /\ UNCHANGED <<now, guardOnly, notGuard>>

NextGuard ==
    \/ \E key \in GuardKeys : check_and_reserve(key)
    \/ \E key \in GuardKeys : release(key)
    \/ Tick

\* @retry_api_call(max_attempts=2, initial_delay=1.0) on connect
connect_attempts == 2

\* the pcs at which a thread is in the rate-limiter acquisition or in the
\* transport call of a read or a write, and the pc at which it is in
\* connect's transport call generate_session
InTransport == {"wait", "send", "inflight"}
InSession == "connecting"

\* BreezeAPIClient.connect: `self.breeze = BreezeConnect(api_key=...)`, then
\* generate_session(...) is called: neither _require_connection, nor
\* _api_lock, nor the rate limiter
GwConnect(t) ==
    /\ gPc[t] = "idle"
    /\ gCalls < MaxGwCalls
    /\ gCalls' = gCalls + 1
    /\ gCall' = [gCall EXCEPT ![t] =
                   [GwNoCall EXCEPT !.op = "connect", !.attempt = 1, !.tcalls = 1,
                                    !.returned = "pending"]]
    /\ gPc' = [gPc EXCEPT ![t] = InSession]
    /\ UNCHANGED <<gClient, gConnected, gRecent, gApiLock, gTokens, gLastRefill,
                   gCacheAt, gDone, gLive, gTransportFailing, now>>
    /\ UNCHANGED notGateway

\* generate_session returns: self.connected = True, return self._ok(...)
GwConnectReturns(t) ==
    /\ gPc[t] = InSession
    /\ gConnected' = TRUE
    /\ Finish(t, Returns(gCall[t], TRUE, "None"))
    /\ UNCHANGED <<gClient, gRecent, gApiLock, gTokens, gLastRefill,
                   gCacheAt, gLive, gTransportFailing, gCalls, now>>
    /\ UNCHANGED notGateway

\* generate_session raises e: the retry decorator of connect decides
GwConnectRaises(t, e) ==
    /\ gPc[t] = InSession
    /\ LET c == [gCall[t] EXCEPT !.fault = "transport"]
           d == RaiseDecision("retry_api_call", e, c.attempt, connect_attempts)
       IN CASE d = "return_permanent" ->
                 Finish(t, Returns(c, FALSE, PermanentResult("retry_api_call", e).error_code))
            [] d = "retry" ->
                 /\ gCall' = [gCall EXCEPT ![t] = c]
                 /\ gPc' = [gPc EXCEPT ![t] = "reconnect"]
                 /\ UNCHANGED gDone
            [] OTHER ->
                 Finish(t, Returns(c, FALSE,
                     MaxRetriesResult("retry_api_call", connect_attempts, e).error_code))
    /\ UNCHANGED <<gClient, gConnected, gRecent, gApiLock, gTokens, gLastRefill,
                   gCacheAt, gLive, gTransportFailing, gCalls, now>>
    /\ UNCHANGED notGateway

\* the retry decorator of connect has slept: the body again
GwConnectRetry(t) ==
    /\ gPc[t] = "reconnect"
    /\ gCall' = [gCall EXCEPT ![t].attempt = @ + 1, ![t].tcalls = @ + 1,
                              ![t].fault = "none"]
    /\ gPc' = [gPc EXCEPT ![t] = InSession]
    /\ UNCHANGED <<gClient, gConnected, gRecent, gApiLock, gTokens, gLastRefill,
                   gCacheAt, gDone, gLive, gTransportFailing, gCalls, now>>
    /\ UNCHANGED notGateway

\* BreezeAPIClient
NextOrder ==
    \/ \E t \in GwThreads, op \in Ops, order \in Orders \cup {<<>>}, argsOk \in BOOLEAN :
          GwCall(t, op, order, argsOk)
    \/ \E t \in GwThreads : GwReserve(t)
    \/ \E t \in GwThreads : GwAcquireLock(t)
    \/ \E t \in GwThreads : GwRateLimit(t)
    \/ \E t \in GwThreads : GwSend(t)
    \/ \E t \in GwThreads : GwTransportReturns(t)
    \/ \E t \in GwThreads, e \in GwFaults : GwTransportRaises(t, e)
    \/ \E t \in GwThreads : GwExcept(t)
    \/ \E t \in GwThreads : GwRetry(t)
    \/ Tick

\* BreezeAPIClient with connect among the calls its threads make
NextSession ==
    \/ \E t \in GwThreads : GwConnect(t)
    \/ \E t \in GwThreads : GwConnectReturns(t)
    \/ \E t \in GwThreads, e \in GwFaults : GwConnectRaises(t, e)
    \/ \E t \in GwThreads : GwConnectRetry(t)
    \/ \E t \in GwThreads, op \in {"place_order", "get_quotes"}, order \in Orders \cup {<<>>} :
          GwCall(t, op, order, TRUE)
    \/ \E t \in GwThreads : GwReserve(t)
    \/ \E t \in GwThreads : GwAcquireLock(t)
    \/ \E t \in GwThreads : GwRateLimit(t)
    \/ \E t \in GwThreads : GwSend(t)
    \/ \E t \in GwThreads : GwTransportReturns(t)
    \/ \E t \in GwThreads, e \in GwFaults : GwTransportRaises(t, e)
    \/ \E t \in GwThreads : GwExcept(t)
    \/ \E t \in GwThreads : GwRetry(t)

\* CompleteBreezeClient: no idempotency guard, no except clause
NextComplete ==
    \/ \E t \in GwThreads, op \in Ops, order \in Orders \cup {<<>>}, argsOk \in BOOLEAN :
          GwCall(t, op, order, argsOk)
    \/ \E t \in GwThreads : GwAcquireLock(t)
    \/ \E t \in GwThreads : GwRateLimit(t)
    \/ \E t \in GwThreads : GwRateTimeout(t)
    \/ \E t \in GwThreads : GwSend(t)
    \/ \E t \in GwThreads : GwTransportReturns(t)
    \/ \E t \in GwThreads, e \in GwFaults : GwTransportRaises(t, e)
    \/ \E t \in GwThreads : GwRetry(t)
    \/ Tick

\* CompleteBreezeClient called for quotes and for orders that are well formed
\* (the order's content plays no part: this client has no idempotency guard)
NextLimiter ==
    \/ \E t \in GwThreads : GwCall(t, "get_quotes", <<>>, TRUE)
    \/ \E t \in GwThreads : GwCall(t, "place_order", CHOOSE o \in Orders : TRUE, TRUE)
    \/ \E t \in GwThreads : GwAcquireLock(t)
    \/ \E t \in GwThreads : GwRateLimit(t)
    \/ \E t \in GwThreads : GwRateTimeout(t)
    \/ \E t \in GwThreads : GwSend(t)
    \/ \E t \in GwThreads : GwTransportReturns(t)
    \/ \E t \in GwThreads, e \in GwFaults : GwTransportRaises(t, e)
    \/ \E t \in GwThreads : GwRetry(t)
    \/ Tick

-----------------------------------------------------------------------------
(* risk_monitor.RiskMonitor: start, stop and the worker's _loop *)

MonCallers == 1..NMonCallers

\* a start() that gets past its test creates one Thread
Workers == 1..MaxStarts

NoThread == 0

InitMonitor ==
    /\ mRunning = FALSE
    /\ mThread = NoThread
    /\ mPc = [c \in MonCallers |-> "idle"]
    /\ mJoin = [c \in MonCallers |-> NoThread]
    /\ mWorker = [w \in Workers |-> "unborn"]
    /\ mStarts = 0
    /\ mSlice = [w \in Workers |-> 0]
    /\ mAfter = [w \in Workers |-> 0]
    /\ mLast = "none"

\* the worker is inside _loop
InLoop(w) == mWorker[w] \in {"while", "check_all", "sleep", "slice"}

\* the threads created so far
Created == {w \in Workers : mWorker[w] # "unborn"}

\* start() that goes on whatever the flag says
StartProceeds_always(running) == TRUE

\* start(): `if self._running.is_set(): return`
StartProceeds(running) == ~running

\* the sleep loop of _loop without its test of the flag
SliceGoesOn_unchecked(running) == TRUE

\* _loop, inside the sleep loop: `if not self._running.is_set(): break`
SliceGoesOn(running) == running

\* start(): `if self._running.is_set(): return`
MStartTest(c) ==
    /\ mPc[c] = "idle"
    /\ mStarts < MaxStarts
    /\ mStarts' = mStarts + 1
    /\ mLast' = "start"
    /\ mPc' = [mPc EXCEPT ![c] = IF StartProceeds(mRunning) THEN "set" ELSE "idle"]
    /\ UNCHANGED <<mRunning, mThread, mJoin, mWorker, mSlice, mAfter>>
    /\ UNCHANGED notMonitor

\* start(): `self._running.set()`
MStartSet(c) ==
    /\ mPc[c] = "set"
    /\ mRunning' = TRUE
    /\ mAfter' = [w \in Workers |-> 0]
    /\ mPc' = [mPc EXCEPT ![c] = "thread"]
    /\ UNCHANGED <<mThread, mJoin, mWorker, mStarts, mSlice, mLast>>
    /\ UNCHANGED notMonitor

\* start(): `self._thread = threading.Thread(target=self._loop, ...)` and
\* `self._thread.start()`
MStartThread(c) ==
    /\ mPc[c] = "thread"
    /\ LET w == Cardinality(Created) + 1
       IN /\ mThread' = w
          /\ mWorker' = [mWorker EXCEPT ![w] = "while"]
    /\ mPc' = [mPc EXCEPT ![c] = "idle"]
    /\ UNCHANGED <<mRunning, mJoin, mStarts, mSlice, mAfter, mLast>>
    /\ UNCHANGED notMonitor

\* stop(): `self._running.clear()` and `if self._thread:`
MStopClear(c) ==
    /\ mPc[c] = "idle"
    /\ mRunning' = FALSE
    /\ mLast' = "stop"
    /\ mAfter' = IF mRunning THEN [w \in Workers |-> 0] ELSE mAfter
    /\ IF mThread # NoThread
       THEN /\ mJoin' = [mJoin EXCEPT ![c] = mThread]
            /\ mPc' = [mPc EXCEPT ![c] = "join"]
       ELSE UNCHANGED <<mJoin, mPc>>
    /\ UNCHANGED <<mThread, mWorker, mStarts, mSlice>>
    /\ UNCHANGED notMonitor

\* stop(): `self._thread.join(timeout=5.0)` returns, because the worker has
\* left _loop or because 5 s have passed while it is still inside
\* _check_all (a cycle of get_quotes calls, each with its retries, has no
\* upper bound on its duration; the sleep of _loop ends within 0.1 s of the
\* flag being cleared), then `self._thread = None`
MStopJoin(c) ==
    /\ mPc[c] = "join"
    /\ mWorker[mJoin[c]] \in {"exited", "check_all"}
    /\ mThread' = NoThread
    /\ mJoin' = [mJoin EXCEPT ![c] = NoThread]
    /\ mPc' = [mPc EXCEPT ![c] = "idle"]
    /\ UNCHANGED <<mRunning, mWorker, mStarts, mSlice, mAfter, mLast>>
    /\ UNCHANGED notMonitor

\* _loop: `while self._running.is_set():`
MLoopTest(w) ==
    /\ mWorker[w] = "while"
    /\ mWorker' = [mWorker EXCEPT ![w] = IF mRunning THEN "check_all" ELSE "exited"]
    /\ UNCHANGED <<mRunning, mThread, mPc, mJoin, mStarts, mSlice, mAfter, mLast>>
    /\ UNCHANGED notMonitor

\* _loop: self._check_all() returns or raises (the exception is logged);
\* `for _ in range(int(self._poll_interval * 10)):`
MCheckAll(w) ==
    /\ mWorker[w] = "check_all"
    /\ mWorker' = [mWorker EXCEPT ![w] = "sleep"]
    /\ mSlice' = [mSlice EXCEPT ![w] = MaxSlices]
    /\ UNCHANGED <<mRunning, mThread, mPc, mJoin, mStarts, mAfter, mLast>>
    /\ UNCHANGED notMonitor

\* _loop, the sleep loop: the range is exhausted, or the flag is found
\* cleared (break), or `time.sleep(0.1)` begins
MSliceTest(w) ==
    /\ mWorker[w] = "sleep"
    /\ IF mSlice[w] > 0 /\ SliceGoesOn(mRunning)
       THEN /\ mWorker' = [mWorker EXCEPT ![w] = "slice"]
            /\ mSlice' = [mSlice EXCEPT ![w] = @ - 1]
       ELSE /\ mWorker' = [mWorker EXCEPT ![w] = "while"]
            /\ mSlice' = [mSlice EXCEPT ![w] = 0]
    /\ UNCHANGED <<mRunning, mThread, mPc, mJoin, mStarts, mAfter, mLast>>
    /\ UNCHANGED notMonitor

\* _loop, the sleep loop: `time.sleep(0.1)` is over
MSliceSleep(w) ==
    /\ mWorker[w] = "slice"
    /\ mWorker' = [mWorker EXCEPT ![w] = "sleep"]
    /\ mAfter' = IF mRunning THEN mAfter ELSE [mAfter EXCEPT ![w] = @ + 1]
    /\ UNCHANGED <<mRunning, mThread, mPc, mJoin, mStarts, mSlice, mLast>>
    /\ UNCHANGED notMonitor

\* the steps of worker w
WorkerSteps(w) ==
    \/ MLoopTest(w)
    \/ MCheckAll(w)
    \/ MSliceTest(w)
    \/ MSliceSleep(w)

NextMonitor ==
    \/ \E c \in MonCallers : MStartTest(c)
    \/ \E c \in MonCallers : MStartSet(c)
    \/ \E c \in MonCallers : MStartThread(c)
    \/ \E c \in MonCallers : MStopClear(c)
    \/ \E c \in MonCallers : MStopJoin(c)
    \/ \E w \in Workers : MLoopTest(w)
    \/ \E w \in Workers : MCheckAll(w)
    \/ \E w \in Workers : MSliceTest(w)
    \/ \E w \in Workers : MSliceSleep(w)

\* no start() or stop() is in progress
NoCallInProgress == \A c \in MonCallers : mPc[c] = "idle"

\* start() and stop() called one after the other, from any of the callers
NextMonitorCalls ==
    \/ \E c \in MonCallers : NoCallInProgress /\ MStartTest(c)
    \/ \E c \in MonCallers : MStartSet(c)
    \/ \E c \in MonCallers : MStartThread(c)
    \/ \E c \in MonCallers : NoCallInProgress /\ MStopClear(c)
    \/ \E c \in MonCallers : MStopJoin(c)
    \/ \E w \in Workers : WorkerSteps(w)

-----------------------------------------------------------------------------
(* risk_monitor.RiskMonitor: positions, stop rules and the poll cycle.      *)
(* Prices are whole rupees; trailing_stop_pct is held in percent, so the    *)
(* products of _check_stop are compared after scaling by 100.               *)

\* the position ids: two, so that a cycle has another position to go on with
Pids == {1, 2}

\* None, for stop_loss_price and trailing_stop_pct
NoRule == -1

\* last-traded prices the quote feed yields, and the arguments of the
\* foreground calls
Prices == {70, 90, 100, 150}
AvgPrices == {100}
StopPrices == {90, 150}
TrailPcts == {50}
Sides == {"long", "short"}

\* no MonitoredPosition under this id
NoPos ==
    [position_type |-> "none", avg_price |-> 0, current_price |-> 0,
     high_water_mark |-> 0, stop_loss_price |-> NoRule,
     trailing_stop_pct |-> NoRule, stop_triggered |-> FALSE]

\* add_position: MonitoredPosition(..., current_price=avg_price, high_water_mark=avg_price)
NewPosition(position_type, avg_price) ==
    [position_type |-> position_type, avg_price |-> avg_price,
     current_price |-> avg_price, high_water_mark |-> avg_price,
     stop_loss_price |-> NoRule, trailing_stop_pct |-> NoRule,
     stop_triggered |-> FALSE]

\* set_stop_loss that also arms the position again
set_stop_loss_rearm(p, stop_price) ==
    [p EXCEPT !.stop_loss_price = stop_price, !.trailing_stop_pct = NoRule,
              !.stop_triggered = FALSE]

\* set_stop_loss, for a monitored position
set_stop_loss(p, stop_price) ==
    [p EXCEPT !.stop_loss_price = stop_price, !.trailing_stop_pct = NoRule]

\* set_trailing_stop, for a monitored position
set_trailing_stop(p, trail_pct) ==
    [p EXCEPT !.trailing_stop_pct = trail_pct, !.stop_loss_price = NoRule,
              !.high_water_mark = IF p.current_price # 0 THEN p.current_price
                                  ELSE p.avg_price]

\* what self._client.get_quotes gives _update_price: a success with a
\* last-traded price (0: no items, or an ltp that is not positive), a
\* failure result, or an exception
QuoteOutcomes ==
    {[kind |-> "ltp", ltp |-> v] : v \in Prices \cup {0}}
    \cup {[kind |-> "failure", ltp |-> 0], [kind |-> "raise", ltp |-> 0]}

\* _update_price without its try block: an exception of get_quotes leaves
\* _check_all
AfterFetch_uncaught(q) == IF q.kind = "raise" THEN "abort" ELSE "check"

\* _update_price catches every exception: _check_stop always follows
AfterFetch(q) == "check"

\* the price _update_price stores: `if ltp > 0: pos.current_price = ltp`,
\* inside `if resp.get("success")` (0: nothing is stored)
Stored(q) == IF q.kind = "ltp" /\ q.ltp > 0 THEN q.ltp ELSE 0

\* _update_price with the two comparisons on high_water_mark exchanged
update_price_reversed(p, q) ==
    IF q.kind = "ltp" /\ q.ltp > 0
    THEN [p EXCEPT !.current_price = q.ltp,
                   !.high_water_mark =
                       IF p.position_type = "short"
                       THEN IF q.ltp > p.high_water_mark \/ p.high_water_mark <= 0
                            THEN q.ltp ELSE p.high_water_mark
                       ELSE IF q.ltp < p.high_water_mark
                            THEN q.ltp ELSE p.high_water_mark]
    ELSE p

\* _update_price: the fields written when the quote is a success with ltp > 0
update_price(p, q) ==
    IF q.kind = "ltp" /\ q.ltp > 0
    THEN [p EXCEPT !.current_price = q.ltp,
                   !.high_water_mark =
                       IF p.position_type = "short"
                       THEN IF q.ltp < p.high_water_mark \/ p.high_water_mark <= 0
                            THEN q.ltp ELSE p.high_water_mark
                       ELSE IF q.ltp > p.high_water_mark
                            THEN q.ltp ELSE p.high_water_mark]
    ELSE p

\* _check_stop: which branch the tests on the position's fields select
CheckBranch(p) ==
    IF p.current_price <= 0 THEN "return"
    ELSE IF p.stop_loss_price # NoRule THEN "fixed"
    ELSE IF p.trailing_stop_pct # NoRule /\ p.trailing_stop_pct > 0
            /\ p.high_water_mark > 0 THEN "trailing"
    ELSE "none"

\* the fixed branch with strict comparisons
FixedHit_strict(p) ==
    \/ p.position_type = "short" /\ p.current_price > p.stop_loss_price
    \/ p.position_type = "long" /\ p.current_price < p.stop_loss_price

\* the fixed branch of _check_stop
FixedHit(p) ==
    \/ p.position_type = "short" /\ p.current_price >= p.stop_loss_price
    \/ p.position_type = "long" /\ p.current_price <= p.stop_loss_price

\* the trailing branch measured from avg_price instead of high_water_mark
TrailingHit_fromAvg(p) ==
    IF p.position_type = "short"
    THEN p.current_price * 100 >= p.avg_price * (100 + p.trailing_stop_pct)
    ELSE p.current_price * 100 <= p.avg_price * (100 - p.trailing_stop_pct)

\* the trailing branch of _check_stop: trail_level = high_water_mark * (1 +- pct)
TrailingHit(p) ==
    IF p.position_type = "short"
    THEN p.current_price * 100 >= p.high_water_mark * (100 + p.trailing_stop_pct)
    ELSE p.current_price * 100 <= p.high_water_mark * (100 - p.trailing_stop_pct)

\* _check_stop once its branch is chosen: the fields are read again, so a
\* rule that a foreground call has replaced in between makes the
\* comparison (or the arithmetic) meet None and raise TypeError
CheckOutcome(p, branch) ==
    IF branch = "fixed"
    THEN IF p.stop_loss_price = NoRule THEN "TypeError"
         ELSE IF FixedHit(p) THEN "trigger" ELSE "no"
    ELSE IF p.trailing_stop_pct = NoRule THEN "TypeError"
         ELSE IF TrailingHit(p) THEN "trigger" ELSE "no"

\* one visit of _check_all to a position that is not triggered, get_quotes
\* answering with the last-traded price ltp: _update_price, then _check_stop
Visit(p, ltp) ==
    LET u == update_price(p, [kind |-> "ltp", ltp |-> ltp])
        b == CheckBranch(u)
    IN IF b \in {"fixed", "trailing"} /\ CheckOutcome(u, b) = "trigger"
       THEN [u EXCEPT !.stop_triggered = TRUE]
       ELSE u

\* the position after as many cycles as ltps has prices, one price each:
\* `if pos.stop_triggered: continue` from the cycle after the trigger on
RECURSIVE AfterCycles(_, _)
AfterCycles(p, ltps) ==
    IF ltps = <<>> THEN p
    ELSE IF p.stop_triggered THEN p
    ELSE AfterCycles(Visit(p, Head(ltps)), Tail(ltps))

\* len(self._alert_history) is kept at 50 at most
history_cap == 50

\* self._alert_history.append(alert), then the cut to the last 50
AppendAlert(history, alert) ==
    LET h == Append(history, alert)
    IN IF Len(h) > history_cap THEN SubSeq(h, Len(h) - history_cap + 1, Len(h)) ELSE h

\* fetched: for a check that triggered, the price stored in its visit
NoCheck ==
    [id |-> 0, pos |-> NoPos, branch |-> "none", outcome |-> "none", fetched |-> 0]

\* no trailing stop on the position, or no price read since it was set
NoReads == [seed |-> 0, extreme |-> 0]

\* the running extreme of the prices read: the lowest for a short position,
\* the highest for a long one (0: none read yet)
Extreme(position_type, extreme, ltp) ==
    IF extreme = 0 THEN ltp
    ELSE IF position_type = "short"
         THEN (IF ltp < extreme THEN ltp ELSE extreme)
         ELSE (IF ltp > extreme THEN ltp ELSE extreme)

\* what a cycle has met so far; fetched is the last-traded price that
\* _update_price has stored in the visit in progress (0: nothing stored)
NoLog ==
    [snapshot |-> {}, skipped |-> {}, checked |-> {}, failed |-> FALSE, abort |-> "none",
     afterFault |-> FALSE, fetched |-> 0]

\* a _loop whose try block catches nothing: the exception ends the thread
LoopCatches_nothing(exc) == FALSE

\* _loop: `except Exception as e:` around self._check_all()
LoopCatches(exc) == exc \in {"TypeError", "Exception"}

\* a monitor just constructed, and the workers of ws at the top of _loop
InitStops(ws) ==
    /\ pPos = [i \in Pids |-> NoPos]
    /\ pAlerts = <<>>
    /\ pPc = [w \in Workers |-> IF w \in ws THEN "top" ELSE "off"]
    /\ pSnap = [w \in Workers |-> {}]
    /\ pCur = [w \in Workers |-> 0]
    /\ pBranch = [w \in Workers |-> "none"]
    /\ pCycles = 0
    /\ pCalls = 0
    /\ pLastCheck = NoCheck
    /\ pCycleLog = [w \in Workers |-> NoLog]
    /\ pSince = [i \in Pids |-> NoReads]
    /\ pRemoved = {}

\* position_id in self._positions
Monitored(i) == pPos[i] # NoPos /\ i \notin pRemoved

\* add_position for an id that is not monitored (ids are handed out in order)
PAdd(i, position_type, avg_price) ==
    /\ pCalls < MaxPosCalls
    /\ pPos[i] = NoPos
    /\ \A j \in Pids : j < i => pPos[j] # NoPos
    /\ pCalls' = pCalls + 1
    /\ pPos' = [pPos EXCEPT ![i] = NewPosition(position_type, avg_price)]
    /\ UNCHANGED <<pRemoved, pAlerts, pPc, pSnap, pCur, pBranch, pCycles, pLastCheck, pCycleLog>>
    /\ pSince' = [pSince EXCEPT ![i] = NoReads]
    /\ UNCHANGED notStops

\* set_stop_loss(position_id, stop_price): nothing happens for an unknown id
PSetStopLoss(i, stop_price) ==
    /\ pCalls < MaxPosCalls
    /\ pCalls' = pCalls + 1
    /\ pPos' = IF Monitored(i)
               THEN [pPos EXCEPT ![i] = set_stop_loss(pPos[i], stop_price)]
               ELSE pPos
    /\ UNCHANGED <<pRemoved, pAlerts, pPc, pSnap, pCur, pBranch, pCycles, pLastCheck, pCycleLog>>
    /\ pSince' = [pSince EXCEPT ![i] = NoReads]
    /\ UNCHANGED notStops

\* set_trailing_stop(position_id, trail_pct): nothing happens for an unknown id
PSetTrailingStop(i, trail_pct) ==
    /\ pCalls < MaxPosCalls
    /\ pCalls' = pCalls + 1
    /\ pPos' = IF Monitored(i)
               THEN [pPos EXCEPT ![i] = set_trailing_stop(pPos[i], trail_pct)]
               ELSE pPos
    /\ UNCHANGED <<pRemoved, pAlerts, pPc, pSnap, pCur, pBranch, pCycles, pLastCheck, pCycleLog>>
    /\ pSince' = IF Monitored(i)
                 THEN [pSince EXCEPT ![i] = [seed |-> pPos[i].current_price, extreme |-> 0]]
                 ELSE pSince
    /\ UNCHANGED notStops

\* _loop finds the flag set and calls _check_all, which takes its snapshot:
\* `positions = list(self._positions.values())`
PollBegin(w) ==
    /\ pPc[w] = "top"
    /\ pCycles < MaxCycles
    /\ pCycles' = pCycles + 1
    /\ pSnap' = [pSnap EXCEPT ![w] = {i \in Pids : Monitored(i)}]
    /\ pCycleLog' = [pCycleLog EXCEPT
                        ![w] = [@ EXCEPT !.snapshot = {i \in Pids : Monitored(i)}]]
    /\ pPc' = [pPc EXCEPT ![w] = "visit"]
    /\ UNCHANGED <<pRemoved, pPos, pAlerts, pCur, pBranch, pCalls, pLastCheck, pSince>>
    /\ UNCHANGED notStops

\* _check_all: the next position of the snapshot; `if pos.stop_triggered: continue`
PollVisit(w, i) ==
    /\ pPc[w] = "visit"
    /\ i \in pSnap[w]
    /\ pSnap' = [pSnap EXCEPT ![w] = @ \ {i}]
    /\ IF pPos[i].stop_triggered
       THEN /\ pCycleLog' = [pCycleLog EXCEPT ![w].skipped = @ \cup {i}, ![w].fetched = 0]
            /\ UNCHANGED <<pPc, pCur>>
       ELSE /\ pCur' = [pCur EXCEPT ![w] = i]
            /\ pPc' = [pPc EXCEPT ![w] = "fetch"]
            /\ pCycleLog' = [pCycleLog EXCEPT ![w].fetched = 0]
    /\ pLastCheck' = NoCheck
    /\ UNCHANGED <<pRemoved, pPos, pAlerts, pBranch, pCycles, pCalls, pSince>>
    /\ UNCHANGED notStops

\* _check_all: the snapshot is exhausted; _loop goes to its sleep
PollDone(w) ==
    /\ pPc[w] = "visit"
    /\ pSnap[w] = {}
    /\ pPc' = [pPc EXCEPT ![w] = "sleep"]
    /\ pLastCheck' = NoCheck
    /\ UNCHANGED <<pRemoved, pPos, pAlerts, pSnap, pCur, pBranch, pCycles, pCalls, pCycleLog, pSince>>
    /\ UNCHANGED notStops

\* _update_price: get_quotes has answered with q
PollFetch(w, q) ==
    /\ pPc[w] = "fetch"
    /\ pPos' = [pPos EXCEPT ![pCur[w]] = update_price(@, q)]
    /\ IF AfterFetch(q) = "check"
       THEN /\ pPc' = [pPc EXCEPT ![w] = "check"]
            /\ pCycleLog' = [pCycleLog EXCEPT
                                ![w].failed = @ \/ q.kind \in {"failure", "raise"},
                                ![w].fetched = Stored(q)]
            /\ UNCHANGED <<pSnap, pCur>>
       ELSE /\ pPc' = [pPc EXCEPT ![w] = "sleep"]
            /\ pCycleLog' = [pCycleLog EXCEPT ![w].failed = TRUE, ![w].abort = "fetch"]
            /\ pSnap' = [pSnap EXCEPT ![w] = {}]
            /\ pCur' = [pCur EXCEPT ![w] = 0]
    /\ UNCHANGED <<pRemoved, pAlerts, pBranch, pCycles, pCalls, pLastCheck>>
    /\ pSince' = IF q.kind = "ltp" /\ q.ltp > 0 /\ pPos[pCur[w]].trailing_stop_pct # NoRule
                 THEN [pSince EXCEPT ![pCur[w]].extreme =
                          Extreme(pPos[pCur[w]].position_type, @, q.ltp)]
                 ELSE pSince
    /\ UNCHANGED notStops

\* _check_stop: the tests that choose the branch
PollCheck(w) ==
    /\ pPc[w] = "check"
    /\ LET i == pCur[w]
           b == CheckBranch(pPos[i])
       IN IF b \in {"fixed", "trailing"}
          THEN /\ pBranch' = [pBranch EXCEPT ![w] = b]
               /\ pPc' = [pPc EXCEPT ![w] = "decide"]
               /\ UNCHANGED <<pCur, pLastCheck, pCycleLog>>
          ELSE /\ pLastCheck' = [id |-> i, pos |-> pPos[i], branch |-> b, outcome |-> "no",
                                  fetched |-> 0]
               /\ pCycleLog' = [pCycleLog EXCEPT ![w].checked = @ \cup {i}, ![w].fetched = 0]
               /\ pCur' = [pCur EXCEPT ![w] = 0]
               /\ pPc' = [pPc EXCEPT ![w] = "visit"]
               /\ UNCHANGED pBranch
    /\ UNCHANGED <<pRemoved, pPos, pAlerts, pSnap, pCycles, pCalls, pSince>>
    /\ UNCHANGED notStops

\* _check_stop: the comparison of the chosen branch and, when it holds,
\* stop_triggered = True and the alert; a TypeError leaves _check_all and is
\* logged by _loop
PollDecide(w) ==
    /\ pPc[w] = "decide"
    /\ LET i == pCur[w]
           o == CheckOutcome(pPos[i], pBranch[w])
       IN /\ pLastCheck' = [id |-> i, pos |-> pPos[i], branch |-> pBranch[w], outcome |-> o,
                             fetched |-> IF o = "trigger" THEN pCycleLog[w].fetched ELSE 0]
          /\ pPos' = IF o = "trigger"
                     THEN [pPos EXCEPT ![i].stop_triggered = TRUE]
                     ELSE pPos
          /\ pAlerts' = IF o = "trigger"
                        THEN AppendAlert(pAlerts, [position_id |-> i,
                                                   current |-> pPos[i].current_price])
                        ELSE pAlerts
          /\ IF o = "TypeError"
             THEN /\ pPc' = [pPc EXCEPT ![w] = IF LoopCatches(o) THEN "sleep" ELSE "dead"]
                  /\ pSnap' = [pSnap EXCEPT ![w] = {}]
                  /\ pCycleLog' = [pCycleLog EXCEPT ![w].abort = "check_stop",
                                                     ![w].fetched = 0]
             ELSE /\ pPc' = [pPc EXCEPT ![w] = "visit"]
                  /\ pCycleLog' = [pCycleLog EXCEPT ![w].checked = @ \cup {i},
                                                     ![w].fetched = 0]
                  /\ UNCHANGED pSnap
    /\ pCur' = [pCur EXCEPT ![w] = 0]
    /\ pBranch' = [pBranch EXCEPT ![w] = "none"]
    /\ UNCHANGED <<pRemoved, pCycles, pCalls, pSince>>
    /\ UNCHANGED notStops

\* _loop: the sleep between two cycles is over
PollSleep(w) ==
    /\ pPc[w] = "sleep"
    /\ pPc' = [pPc EXCEPT ![w] = "top"]
    /\ pCycleLog' = [pCycleLog EXCEPT
                        ![w] = [NoLog EXCEPT !.afterFault = pCycleLog[w].abort # "none"]]
    /\ pLastCheck' = NoCheck
    /\ UNCHANGED <<pRemoved, pPos, pAlerts, pSnap, pCur, pBranch, pCycles, pCalls, pSince>>
    /\ UNCHANGED notStops

\* the foreground calls
PosCalls ==
    \/ \E i \in Pids, t \in Sides, a \in AvgPrices : PAdd(i, t, a)
    \/ \E i \in Pids, s \in StopPrices : PSetStopLoss(i, s)
    \/ \E i \in Pids, p \in TrailPcts : PSetTrailingStop(i, p)

\* the steps made inside `with self._lock:`: the foreground calls, and the
\* snapshot _check_all takes
UnderLock ==
    \/ PosCalls
    \/ \E w \in Workers : PollBegin(w)

\* the steps of poll worker w
PollSteps(w) ==
    \/ PollBegin(w)
    \/ \E i \in Pids : PollVisit(w, i)
    \/ PollDone(w)
    \/ \E q \in QuoteOutcomes : PollFetch(w, q)
    \/ PollCheck(w)
    \/ PollDecide(w)
    \/ PollSleep(w)

\* the monitor with the one worker a single start() creates
NextStops ==
    \/ PosCalls
    \/ PollSteps(1)

\* the monitor with every worker that start() has created (see MStartThread),
\* watching position 1
NextStopsWorkers ==
    \/ \E t \in Sides, a \in AvgPrices : PAdd(1, t, a)
    \/ \E s \in StopPrices : PSetStopLoss(1, s)
    \/ \E p \in TrailPcts : PSetTrailingStop(1, p)
    \/ \E w \in Workers : PollSteps(w)

\* remove_position(position_id): `self._positions.pop(position_id, None)`;
\* the MonitoredPosition itself lives on in every snapshot that holds it
PRemove(i) ==
    /\ pCalls < MaxPosCalls
    /\ pCalls' = pCalls + 1
    /\ pRemoved' = IF Monitored(i) THEN pRemoved \cup {i} ELSE pRemoved
    /\ UNCHANGED <<pPos, pAlerts, pPc, pSnap, pCur, pBranch, pCycles, pLastCheck,
                   pCycleLog, pSince>>
    /\ UNCHANGED notStops

\* the positions of a poll worker that are inside _check_all
InCycle == {"visit", "fetch", "check", "decide"}

\* _loop: `while self._running.is_set():` finds the flag set and
\* _check_all begins
PollEnter(w) ==
    /\ mRunning
    /\ PollBegin(w)

\* _loop: `while self._running.is_set():` finds the flag cleared and the
\* thread ends
PollExit(w) ==
    /\ pPc[w] = "top"
    /\ ~mRunning
    /\ pPc' = [pPc EXCEPT ![w] = "off"]
    /\ mWorker' = [mWorker EXCEPT ![w] = "exited"]
    /\ UNCHANGED <<pPos, pAlerts, pSnap, pCur, pBranch, pCycles, pCalls, pLastCheck,
                   pCycleLog, pSince, pRemoved>>
    /\ UNCHANGED <<mRunning, mThread, mPc, mJoin, mStarts, mSlice, mAfter, mLast>>
    /\ UNCHANGED <<now, varsRetry, varsBreaker, varsGateway, varsGuard, varsBucket, varsAlerts>>

\* stop(): `self._thread.join(timeout=5.0)` returns, because the worker has
\* ended or because 5 s have passed while it is still inside _check_all (see
\* MStopJoin; here the worker's position is pPc), then `self._thread = None`
PStopJoin(c) ==
    /\ mPc[c] = "join"
    /\ pPc[mJoin[c]] \in {"off", "dead"} \cup InCycle
    /\ mThread' = NoThread
    /\ mJoin' = [mJoin EXCEPT ![c] = NoThread]
    /\ mPc' = [mPc EXCEPT ![c] = "idle"]
    /\ UNCHANGED <<mRunning, mWorker, mStarts, mSlice, mAfter, mLast>>
    /\ UNCHANGED notMonitor

\* the monitor with its one worker, positions added, given a fixed stop and
\* removed, and stop() called from one thread
NextLifecycle ==
    \/ \E i \in Pids, t \in Sides, a \in AvgPrices : PAdd(i, t, a)
    \/ \E i \in Pids, s \in StopPrices : PSetStopLoss(i, s)
    \/ \E i \in Pids : PRemove(i)
    \/ MStopClear(1)
    \/ PStopJoin(1)
    \/ PollEnter(1)
    \/ PollExit(1)
    \/ \E i \in Pids : PollVisit(1, i)
    \/ PollDone(1)
    \/ \E q \in QuoteOutcomes : PollFetch(1, q)
    \/ PollCheck(1)
    \/ PollDecide(1)
    \/ PollSleep(1)

-----------------------------------------------------------------------------
(* risk_monitor.RiskMonitor: the alert queue and the alert history, written *)
(* by _check_stop and read by get_alerts and get_alert_history.  An alert   *)
(* is the number it was created with.                                       *)

Readers == 1..NReaders

\* the history of a monitor that has emitted n alerts so far
HistoryAfter(n) ==
    IF n > history_cap
    THEN [k \in 1..history_cap |-> n - history_cap + k]
    ELSE [k \in 1..n |-> k]

\* numbers of alerts a monitor may have emitted before: none, one short of
\* a full history, a full history
EmittedBefore == {0, history_cap - 1, history_cap}

NotReading == [pc |-> "idle", alerts |-> <<>>]

\* a monitor that has emitted n alerts, all of them drained by get_alerts
InitAlerts ==
    /\ \E n \in EmittedBefore :
          /\ aHistory = HistoryAfter(n)
          /\ aNext = n + 1
    /\ aQueue = <<>>
    /\ aPc = "idle"
    /\ aEmits = 0
    /\ aReader = [r \in Readers |-> NotReading]
    /\ aReads = 0
    /\ aHanded = <<>>
    /\ aSeen = <<>>

\* queue.Queue.get_nowait that leaves the item in the queue
get_nowait_peek(q) == [item |-> Head(q), rest |-> q]

\* queue.Queue.get_nowait on a queue that is not empty
get_nowait(q) == [item |-> Head(q), rest |-> Tail(q)]

\* _check_stop, `if triggered:`: the Alert is built and `self._alerts.put(alert)`
AEmitPut ==
    /\ aPc = "idle"
    /\ aEmits < MaxEmits
    /\ aEmits' = aEmits + 1
    /\ aNext' = aNext + 1
    /\ aQueue' = Append(aQueue, aNext)
    /\ aPc' = "append"
    /\ UNCHANGED <<aHistory, aReader, aReads, aHanded, aSeen>>
    /\ UNCHANGED notAlerts

\* _check_stop: `self._alert_history.append(alert)`
AEmitAppend ==
    /\ aPc = "append"
    /\ aHistory' = Append(aHistory, aNext - 1)
    /\ aPc' = "trim"
    /\ UNCHANGED <<aQueue, aNext, aEmits, aReader, aReads, aHanded, aSeen>>
    /\ UNCHANGED notAlerts

\* _check_stop: `if len(self._alert_history) > 50:
\*                   self._alert_history = self._alert_history[-50:]`
AEmitTrim ==
    /\ aPc = "trim"
    /\ aHistory' = IF Len(aHistory) > history_cap
                   THEN SubSeq(aHistory, Len(aHistory) - history_cap + 1, Len(aHistory))
                   ELSE aHistory
    /\ aPc' = "idle"
    /\ UNCHANGED <<aQueue, aNext, aEmits, aReader, aReads, aHanded, aSeen>>
    /\ UNCHANGED notAlerts

\* get_alerts is called: `alerts = []`
AGetAlerts(r) ==
    /\ aReader[r].pc = "idle"
    /\ aReads < MaxReads
    /\ aReads' = aReads + 1
    /\ aReader' = [aReader EXCEPT ![r] = [pc |-> "test", alerts |-> <<>>]]
    /\ UNCHANGED <<aQueue, aHistory, aPc, aNext, aEmits, aHanded, aSeen>>
    /\ UNCHANGED notAlerts

\* get_alerts: `while not self._alerts.empty():`, and `return alerts` when
\* the queue is empty
AGetTest(r) ==
    /\ aReader[r].pc = "test"
    /\ aReader' = [aReader EXCEPT ![r].pc = IF aQueue = <<>> THEN "idle" ELSE "get"]
    /\ UNCHANGED <<aQueue, aHistory, aPc, aNext, aEmits, aReads, aHanded, aSeen>>
    /\ UNCHANGED notAlerts

\* get_alerts: `alerts.append(self._alerts.get_nowait())`, or queue.Empty
\* (another thread has taken the item since the test), break and return
AGetNowait(r) ==
    /\ aReader[r].pc = "get"
    /\ IF aQueue = <<>>
       THEN /\ aReader' = [aReader EXCEPT ![r].pc = "idle"]
            /\ UNCHANGED <<aQueue, aHanded>>
       ELSE LET g == get_nowait(aQueue)
            IN /\ aQueue' = g.rest
               /\ aHanded' = Append(aHanded, g.item)
               /\ aReader' = [aReader EXCEPT ![r].pc = "test",
                                             ![r].alerts = Append(@, g.item)]
    /\ UNCHANGED <<aHistory, aPc, aNext, aEmits, aReads, aSeen>>
    /\ UNCHANGED notAlerts

\* get_alert_history: `return list(self._alert_history)`
AGetHistory(r) ==
    /\ aReader[r].pc = "idle"
    /\ aReads < MaxReads
    /\ aReads' = aReads + 1
    /\ aSeen' = aHistory
    /\ UNCHANGED <<aQueue, aHistory, aPc, aNext, aEmits, aReader, aHanded>>
    /\ UNCHANGED notAlerts

NextAlerts ==
    \/ AEmitPut
    \/ AEmitAppend
    \/ AEmitTrim
    \/ \E r \in Readers : AGetAlerts(r)
    \/ \E r \in Readers : AGetTest(r)
    \/ \E r \in Readers : AGetNowait(r)
    \/ \E r \in Readers : AGetHistory(r)

-----------------------------------------------------------------------------
(* Specifications *)

\* a component no action of the specification touches rests in these states
IdleStops == InitStops({})

\* start() has returned and the workers of ws are inside _loop
RunningMonitor(ws) ==
    /\ mRunning = TRUE /\ mStarts = Cardinality(ws)
    /\ mThread = CHOOSE w \in ws : \A v \in ws : v <= w
    /\ mPc = [c \in MonCallers |-> "idle"]
    /\ mJoin = [c \in MonCallers |-> NoThread]
    /\ mWorker = [w \in Workers |-> IF w \in ws THEN "check_all" ELSE "unborn"]
    /\ mSlice = [w \in Workers |-> 0]
    /\ mAfter = [w \in Workers |-> 0]
    /\ mLast = "start"

IdleMonitor ==
    /\ mRunning = FALSE /\ mThread = NoThread /\ mStarts = 0
    /\ mPc = [c \in MonCallers |-> "idle"]
    /\ mJoin = [c \in MonCallers |-> NoThread]
    /\ mWorker = [w \in Workers |-> "unborn"]
    /\ mSlice = [w \in Workers |-> 0]
    /\ mAfter = [w \in Workers |-> 0]
    /\ mLast = "none"

IdleGuard == InitGuard

IdleAlerts ==
    /\ aQueue = <<>> /\ aHistory = <<>> /\ aPc = "idle" /\ aNext = 1 /\ aEmits = 0
    /\ aReader = [r \in Readers |-> NotReading] /\ aReads = 0
    /\ aHanded = <<>> /\ aSeen = <<>>

IdleBucket == InitBucket

IdleRetry ==
    /\ rImpl = "retry_api_call" /\ rMax = 0 /\ rPc = "loop" /\ rAttempt = 0
    /\ rLastExc = <<>> /\ rResult = NoResult /\ rInvocations = 0
    /\ rAllRaisedNonPerm = TRUE /\ rPermAt = 0 /\ rLast = NoLast
    /\ rPolicy = [initial_delay |-> 4, backoff |-> 2] /\ rDelay = 4 /\ rSleep = NoSleep

IdleBreaker ==
    /\ cbThreshold = 1 /\ cbState = "CLOSED" /\ cbFailureCount = 0
    /\ cbLastFailureTime = NoTime
    /\ cbPc = [t \in CbThreads |-> "idle"]
    /\ cbCall = [t \in CbThreads |-> NoCall]
    /\ cbConsec = 0
    /\ cbLastEvent = [kind |-> "none", prevState |-> "CLOSED", at |-> 0]
    /\ cbCalls = 0

IdleGateway ==
    /\ gClient = "BreezeAPIClient" /\ gConnected = FALSE /\ gRecent = {}
    /\ gApiLock = 0 /\ gTokens = bucket_capacity
    /\ gLastRefill = 0 /\ gCacheAt = NoTime
    /\ gPc = [t \in GwThreads |-> "idle"]
    /\ gCall = [t \in GwThreads |-> GwNoCall]
    /\ gDone = GwNoCall /\ gLive = {} /\ gTransportFailing = FALSE /\ gCalls = 0

\* CompleteBreezeClient.__init__: CircuitBreaker(failure_threshold=5, recovery_timeout=60.0)
ClientBreaker ==
    /\ cbThreshold = 5 /\ cbState = "CLOSED" /\ cbFailureCount = 0
    /\ cbLastFailureTime = NoTime
    /\ cbPc = [t \in CbThreads |-> "idle"]
    /\ cbCall = [t \in CbThreads |-> NoCall]
    /\ cbConsec = 0
    /\ cbLastEvent = [kind |-> "none", prevState |-> "CLOSED", at |-> 0]
    /\ cbCalls = 0

InitSpecRetry ==
    now = 0 /\ InitRetry /\ IdleBreaker /\ IdleGateway /\ IdleMonitor /\ IdleStops /\ IdleGuard /\ IdleBucket /\ IdleAlerts

SpecRetry == InitSpecRetry /\ [][NextRetry]_vars

InitSpecBreaker ==
    now = 0 /\ InitBreaker /\ IdleRetry /\ IdleGateway /\ IdleMonitor /\ IdleStops /\ IdleGuard /\ IdleBucket /\ IdleAlerts

SpecBreaker == InitSpecBreaker /\ [][NextBreaker]_vars

\* one BreezeAPIClient, connected or not, called from GwThreads
InitSpecOrder ==
    /\ now = 0 /\ InitGateway /\ gClient = "BreezeAPIClient"
    /\ IdleBreaker /\ IdleRetry /\ IdleMonitor /\ IdleStops /\ IdleGuard /\ IdleBucket /\ IdleAlerts

SpecOrder == InitSpecOrder /\ [][NextOrder]_vars

\* one BreezeAPIClient, connected or not, whose callers also call connect
InitSpecSession ==
    /\ now = 0 /\ InitGateway /\ gClient = "BreezeAPIClient"
    /\ IdleBreaker /\ IdleRetry /\ IdleMonitor /\ IdleStops /\ IdleGuard /\ IdleBucket /\ IdleAlerts

SpecSession == InitSpecSession /\ [][NextSession]_vars

\* one IdempotencyGuard, just constructed, called directly
InitSpecGuard ==
    /\ now = 0 /\ IdleGateway /\ InitGuard /\ IdleBucket
    /\ IdleBreaker /\ IdleRetry /\ IdleMonitor /\ IdleStops /\ IdleAlerts

SpecGuard == InitSpecGuard /\ [][NextGuard]_vars

\* one TokenBucketRateLimiter, just constructed, called from TbThreads
InitSpecBucket ==
    /\ now = 0 /\ InitBucket /\ IdleGateway /\ IdleGuard
    /\ IdleBreaker /\ IdleRetry /\ IdleMonitor /\ IdleStops /\ IdleAlerts

SpecBucket == InitSpecBucket /\ [][NextBucket]_vars

\* the same limiter called through wait_for_token, every thread being
\* scheduled again and again and time passing
InitSpecBucketWaits ==
    /\ now = 0 /\ InitBucket /\ IdleGateway /\ IdleGuard
    /\ IdleBreaker /\ IdleRetry /\ IdleMonitor /\ IdleStops /\ IdleAlerts

SpecBucketWaits ==
    /\ InitSpecBucketWaits /\ [][NextBucketWaits]_vars
    /\ \A t \in Waiters : WF_vars(TbWaitSteps(t))
    /\ WF_vars(TbTick)

\* one RiskMonitor's alerts, emitted by its worker and read from Readers
InitSpecAlerts ==
    /\ now = 0 /\ InitAlerts /\ IdleGateway /\ IdleGuard /\ IdleBucket
    /\ IdleBreaker /\ IdleRetry /\ RunningMonitor({1}) /\ IdleStops

SpecAlerts == InitSpecAlerts /\ [][NextAlerts]_vars

\* one CompleteBreezeClient, connected or not, called from GwThreads
InitSpecComplete ==
    /\ now = 0 /\ InitGateway /\ gClient = "CompleteBreezeClient"
    /\ ClientBreaker /\ IdleRetry /\ IdleMonitor /\ IdleStops /\ IdleGuard /\ IdleBucket /\ IdleAlerts

SpecComplete == InitSpecComplete /\ [][NextComplete]_vars

\* one CompleteBreezeClient, connected or not, asked for quotes and orders
InitSpecLimiter ==
    /\ now = 0 /\ InitGateway /\ gClient = "CompleteBreezeClient"
    /\ ClientBreaker /\ IdleRetry /\ IdleMonitor /\ IdleStops /\ IdleGuard /\ IdleBucket
    /\ IdleAlerts

SpecLimiter == InitSpecLimiter /\ [][NextLimiter]_vars

\* one RiskMonitor, just constructed, with MonCallers calling start and stop
InitSpecMonitor ==
    now = 0 /\ InitMonitor /\ IdleRetry /\ IdleBreaker /\ IdleGateway /\ IdleStops
    /\ IdleGuard /\ IdleBucket /\ IdleAlerts

SpecMonitor == InitSpecMonitor /\ [][NextMonitor]_vars

\* the same, every worker thread being scheduled again and again
SpecMonitorFair ==
    InitSpecMonitor /\ [][NextMonitor]_vars /\ \A w \in Workers : WF_vars(WorkerSteps(w))

\* the same monitor with start() and stop() called one at a time
InitSpecMonitorCalls ==
    now = 0 /\ InitMonitor /\ IdleRetry /\ IdleBreaker /\ IdleGateway /\ IdleStops
    /\ IdleGuard /\ IdleBucket /\ IdleAlerts

SpecMonitorCalls == InitSpecMonitorCalls /\ [][NextMonitorCalls]_vars

\* one RiskMonitor whose single worker is in _loop with the flag set
InitSpecStops ==
    /\ now = 0 /\ IdleRetry /\ IdleBreaker /\ IdleGateway
    /\ RunningMonitor({1}) /\ InitStops({1}) /\ IdleGuard /\ IdleBucket /\ IdleAlerts

SpecStops == InitSpecStops /\ [][NextStops]_vars

\* the same monitor, with remove_position and stop() among the calls
InitSpecLifecycle ==
    /\ now = 0 /\ IdleRetry /\ IdleBreaker /\ IdleGateway
    /\ RunningMonitor({1}) /\ InitStops({1}) /\ IdleGuard /\ IdleBucket /\ IdleAlerts

SpecLifecycle == InitSpecLifecycle /\ [][NextLifecycle]_vars

\* one RiskMonitor with two workers inside _loop, as two concurrent start()
\* calls leave it
InitSpecStopsWorkers ==
    /\ now = 0 /\ IdleRetry /\ IdleBreaker /\ IdleGateway
    /\ RunningMonitor({1, 2}) /\ InitStops({1, 2}) /\ IdleGuard /\ IdleBucket /\ IdleAlerts

SpecStopsWorkers == InitSpecStopsWorkers /\ [][NextStopsWorkers]_vars

-----------------------------------------------------------------------------
(* Claims about the retry executors (checked under SpecRetry) *)

FailedAfterPrefix(n) ==
    <<"F","a","i","l","e","d"," ","a","f","t","e","r"," ">> \o str_int(n) \o
    <<" ","a","t","t","e","m","p","t","s">>

\* C4: when func raises a non-permanent fault on every attempt it is invoked
\* exactly max_attempts times and the wrapper returns a failure whose message
\* reports max_attempts; once func has raised a permanent fault it is never
\* invoked again (one invocation when the first attempt is permanent), for
\* every max_attempts.
C4_RetryCounts ==
    /\ rAllRaisedNonPerm => rInvocations <= rMax
    /\ (rPc = "done" /\ rAllRaisedNonPerm) =>
          /\ rInvocations = rMax
          /\ ~rResult.success
          /\ rResult.error_code \in {"MAX_RETRIES", "MAX_RETRIES_EXCEEDED"}
          /\ SubSeq(rResult.message, 1, Len(FailedAfterPrefix(rMax))) = FailedAfterPrefix(rMax)
    /\ rPermAt # 0 =>
          /\ rInvocations = rPermAt
          /\ rPc = "done"
          /\ ~rResult.success

\* C4 witness: three transient faults exhausted a wrapper built with max_attempts = 3
C4_Witness ==
    /\ rPc = "done"
    /\ rAllRaisedNonPerm
    /\ rMax >= 3
    /\ rInvocations = rMax
    /\ rLast.kind = "raise"

\* C5: a failure payload with message m is retried exactly when a raised fault
\* with message m would be retried on the same attempt.
C5_PayloadRetriedLikeRaise ==
    rLast.kind = "payload" =>
        ((rLast.decision = "retry") <=>
         (RaiseDecision(rImpl, rLast.msg, rLast.attempt, rMax) = "retry"))

-----------------------------------------------------------------------------
(* Claims about the circuit breaker (checked under SpecBreaker) *)

\* C7: once failure_threshold failures have been recorded with no success
\* between them the state is OPEN, and a call that finds the breaker OPEN
\* less than recovery_timeout after the last failure raises at once and never
\* invokes the wrapped function.
C7_OpenAfterThresholdAndRejects ==
    /\ (cbLastEvent.kind = "failure" /\ cbConsec >= cbThreshold) => cbState = "OPEN"
    /\ \A t \in CbThreads :
          (/\ cbCall[t].admState = "OPEN"
           /\ cbCall[t].admNow - cbCall[t].admLastFailure < recovery_timeout)
          => (/\ ~cbCall[t].invoked
              /\ cbCall[t].outcome = "circuit_open"
              /\ cbPc[t] = "idle")

\* C7 witness: two failures in a row opened a breaker with threshold 2 and a
\* call made after the clock had advanced was rejected without invoking func
C7_Witness ==
    /\ cbThreshold >= 2
    /\ cbState = "OPEN"
    /\ cbConsec >= cbThreshold
    /\ \E t \in CbThreads :
          /\ cbCall[t].outcome = "circuit_open"
          /\ cbCall[t].admNow > cbCall[t].admLastFailure

\* C8: a failure recorded while the breaker is HALF_OPEN leaves it OPEN with
\* last_failure_time set to the time of that failure; the breaker is never
\* HALF_OPEN right after a failure has been recorded.
C8_HalfOpenFailureReopens ==
    cbLastEvent.kind = "failure" =>
        /\ cbState # "HALF_OPEN"
        /\ cbLastEvent.prevState = "HALF_OPEN" =>
              (cbState = "OPEN" /\ cbLastFailureTime = cbLastEvent.at)

-----------------------------------------------------------------------------
(* Claims about the client's operations (checked under SpecOrder and
   SpecComplete) *)

\* C1: a call of place_order, cancel_order or modify_order invokes the remote
\* transport method at most once, and a write whose transport call failed
\* comes back to the caller as a failure result.
C1_WriteAtMostOnceFailureReturned ==
    /\ \A t \in GwThreads : gCall[t].op \in WriteOps => gCall[t].tcalls <= 1
    /\ gDone.op \in WriteOps =>
          /\ gDone.tcalls <= 1
          /\ gDone.fault = "transport" => (gDone.returned = "result" /\ ~gDone.success)

\* C2: a place_order call that finds, when it asks the guard, a reservation
\* of its own key that was neither released nor older than 60 s never goes on
\* to the transport: it returns a failure with error_code DUPLICATE_ORDER, so
\* of the calls that carry one key at most one reaches breeze.place_order.
C2_DuplicateNeverDispatched ==
    /\ \A t \in GwThreads : gPc[t] # "reserve" => ~gCall[t].sawLive
    /\ gDone.sawLive =>
          /\ gDone.tcalls = 0
          /\ gDone.returned = "result"
          /\ ~gDone.success
          /\ gDone.error_code = "DUPLICATE_ORDER"

\* C2 witness: while one thread's place_order is in flight at the transport a
\* concurrent call with the same key was turned away as a duplicate
C2_Witness ==
    /\ gDone.sawLive
    /\ gDone.error_code = "DUPLICATE_ORDER"
    /\ \E t \in GwThreads :
          /\ gPc[t] = "inflight"
          /\ gCall[t].op = "place_order"
          /\ gCall[t].key = gDone.key
          /\ gCall[t].tcalls = 1

\* C3: after a place_order whose transport call itself raised, the guard
\* still holds the call's reservation for as long as the minute of the key
\* lasts (the reservation is younger than 60 s throughout that minute).
C3_TransportFailureKeepsReservation ==
    (/\ gDone.op = "place_order"
     /\ gDone.fault = "transport"
     /\ gDone.key # NoKey
     /\ now \div 60 = gDone.key[2])
    => \E r \in gRecent : r.key = gDone.key

\* C6: no call of a public operation ends with an exception reaching the
\* caller; every call returns a result dict.
C6_NoExceptionCrossesGateway ==
    gDone.returned # "exception"

\* C9: transport failures of the client's calls are counted by the client's
\* circuit breaker: after a transport call that raised, with no transport
\* success since, the breaker's failure count is at least one.
C9_TransportFailuresCounted ==
    gTransportFailing => cbFailureCount >= 1

-----------------------------------------------------------------------------
(* Claims about the risk monitor (checked under SpecMonitor) *)

\* C10: whatever start() and stop() calls are made and however they
\* interleave, at most one worker thread is inside _loop.
C10_AtMostOneWorker ==
    Cardinality({w \in Workers : InLoop(w)}) <= 1

-----------------------------------------------------------------------------
(* Claims about stop rules and the poll cycle (checked under SpecStops and
   SpecStopsWorkers) *)

\* the alerts emitted for position i
AlertsOf(i) == {k \in DOMAIN pAlerts : pAlerts[k].position_id = i}

\* C11: a position that has an alert is and stays triggered, no price fetch
\* or stop evaluation is in progress for a triggered position, and no
\* position has more than one alert.
C11_TriggeredIsTerminal ==
    /\ \A i \in Pids : AlertsOf(i) # {} => pPos[i].stop_triggered
    /\ \A w \in Workers :
          pPc[w] \in {"fetch", "check", "decide"} => ~pPos[pCur[w]].stop_triggered
    /\ \A i \in Pids : Cardinality(AlertsOf(i)) <= 1

-----------------------------------------------------------------------------
(* Claims about the session lock (checked under SpecSession) *)

\* C12: while a thread is in the rate-limiter acquisition or in the transport
\* call of place_order, no other thread is in the acquisition or in the
\* transport call of any operation of the same client, connect included.
C12_OneCallInFlight ==
    \A t \in GwThreads :
        gPc[t] \in InTransport /\ gCall[t].op = "place_order"
            => \A u \in GwThreads \ {t} : gPc[u] \notin InTransport \cup {InSession}

-----------------------------------------------------------------------------
(* Claims about the idempotency guard (checked under SpecGuard) *)

\* C13: a check_and_reserve(k) made less than the window after a successful
\* reservation of k, with no release(k) since, returns False; one made after
\* release(k), or at least the window after the successful reservation (or
\* on a key never reserved), returns True.
C13_ReserveTrueThenFalse ==
    \A k \in GuardKeys :
        LET g == iGuard[k]
        IN g.result # "none" =>
              IF g.before = "held" /\ g.at - g.beforeAt < _window
              THEN g.result = "False"
              ELSE g.result = "True"

\* a key was refused inside the window of its reservation while another was
\* reserved again after its release
C13_Witness ==
    \E k, j \in GuardKeys :
        /\ iGuard[k].result = "False" /\ iGuard[k].before = "held"
        /\ iGuard[j].result = "True" /\ iGuard[j].before = "released"

-----------------------------------------------------------------------------
(* Claims about the token bucket (checked under SpecBucket) *)

\* C14: once bucket_capacity tokens have been acquired at one instant, an
\* acquire(1) at that instant returns False, and the first acquire(1) made
\* 1/rate seconds (one unit of tbClock) or more after it returns True.
C14_DrainedThenRefilled ==
    LET a == tbLog.last
    IN a.tokens = 1 /\ a.drainAt # NoTime =>
          /\ a.at = a.drainAt => ~a.result
          /\ a.at - a.drainAt >= 1 => a.result

\* C15: 0 <= tokens <= capacity in every state of the limiter.
C15_TokensWithinBounds == tbTokens >= 0 /\ tbTokens <= bucket_capacity

\* the bucket has been refilled and emptied again, and a wait_for_token is
\* between two of its attempts
C15_Witness ==
    /\ tbTokens = 0 /\ tbLastRefill > 0
    /\ \E t \in TbThreads : tbPc[t] = "sleep"

-----------------------------------------------------------------------------
(* Claims about the limiter inside the client (checked under SpecComplete) *)

\* C16: a call whose wait_for_token has raised TimeoutError makes no further
\* acquisition attempt: it is never inside wait_for_token again, and no call
\* ends having met more than one timeout.
C16_TimeoutNotRetried ==
    /\ \A t \in GwThreads : gCall[t].timeouts >= 1 => gPc[t] # "wait"
    /\ gDone.timeouts <= 1

-----------------------------------------------------------------------------
(* Claims about calls on a client that is not connected (checked under      *)
(* SpecOrder)                                                               *)

-----------------------------------------------------------------------------
(* Claims about the stop rules (checked under SpecStops) *)

\* the evaluation of a position under its trailing stop that has just
\* ended decided as the trailing condition says
TrailingDecision ==
    LET q == pLastCheck.pos
    IN pLastCheck.id # 0 /\ q.trailing_stop_pct # NoRule /\ q.stop_loss_price = NoRule =>
          (pLastCheck.outcome = "trigger"
              <=> IF q.position_type = "long"
                  THEN q.current_price * 100 <= q.high_water_mark * (100 - q.trailing_stop_pct)
                  ELSE q.current_price * 100 >= q.high_water_mark * (100 + q.trailing_stop_pct))

\* long, avg_price 100, trailing stop 0.5, prices 100, 150, 90, 70:
\* high_water_mark is 150 after the second, the trigger comes at the fourth
TrailingExample ==
    LET p0 == set_trailing_stop(NewPosition("long", 100), 50)
    IN /\ AfterCycles(p0, <<100, 150>>).high_water_mark = 150
       /\ ~AfterCycles(p0, <<100, 150, 90>>).stop_triggered
       /\ AfterCycles(p0, <<100, 150, 90, 70>>).stop_triggered
       /\ AfterCycles(p0, <<100, 150, 90, 70>>).current_price = 70

\* C18 as stated: high_water_mark of a position with a trailing stop is the
\* highest (long) or lowest (short) of the prices read since the rule was
\* set, an evaluation triggers iff current <= high_water_mark * (1 - p)
\* (long) or current >= high_water_mark * (1 + p) (short), and the example
\* runs as told.
C18_HwmIsExtremeOfReads ==
    /\ \A i \in Pids :
          pPos[i].trailing_stop_pct # NoRule /\ pSince[i].extreme # 0
              => pPos[i].high_water_mark = pSince[i].extreme
    /\ TrailingDecision
    /\ TrailingExample

\* C18, amended: high_water_mark is the highest (long) or lowest (short) of
\* the price the position carried when the rule was set and of the prices
\* read since; trigger condition and example as stated.
C18_HwmIsExtremeFromSeed ==
    /\ \A i \in Pids :
          pPos[i].trailing_stop_pct # NoRule
              => pPos[i].high_water_mark =
                    Extreme(pPos[i].position_type, pSince[i].extreme, pSince[i].seed)
    /\ TrailingDecision
    /\ TrailingExample

\* a long position bought at 100 with a trailing stop of 0.5 has seen 150
\* and is triggered at 70, the alert carrying 70
C18_Witness ==
    \E i \in Pids :
        /\ pPos[i].position_type = "long" /\ pPos[i].trailing_stop_pct = 50
        /\ pPos[i].high_water_mark = 150 /\ pPos[i].current_price = 70
        /\ pPos[i].stop_triggered
        /\ pLastCheck.id = i /\ pLastCheck.outcome = "trigger"
        /\ \E k \in DOMAIN pAlerts : pAlerts[k] = [position_id |-> i, current |-> 70]

\* short, avg_price 100, fixed stop 150, prices 120, 140, 155 over three
\* cycles: the trigger comes in the third, at 155
FixedExample ==
    LET p0 == set_stop_loss(NewPosition("short", 100), 150)
    IN /\ ~AfterCycles(p0, <<120>>).stop_triggered
       /\ ~AfterCycles(p0, <<120, 140>>).stop_triggered
       /\ AfterCycles(p0, <<120, 140, 155>>).stop_triggered
       /\ AfterCycles(p0, <<120, 140, 155>>).current_price = 155

\* C19: an evaluation of a position under its fixed stop triggers iff
\* current >= stop (short) or current <= stop (long); the trigger appends
\* one alert carrying the current price, no position gets a second alert,
\* and the example runs as told.
C19_FixedStopTriggers ==
    /\ LET q == pLastCheck.pos
       IN /\ pLastCheck.branch = "fixed" /\ pLastCheck.outcome # "TypeError" =>
                (pLastCheck.outcome = "trigger"
                    <=> \/ q.position_type = "short" /\ q.current_price >= q.stop_loss_price
                        \/ q.position_type = "long" /\ q.current_price <= q.stop_loss_price)
          /\ pLastCheck.outcome = "trigger" =>
                /\ pAlerts # <<>>
                /\ pAlerts[Len(pAlerts)] =
                      [position_id |-> pLastCheck.id, current |-> q.current_price]
    /\ \A i \in Pids : Cardinality(AlertsOf(i)) <= 1
    /\ FixedExample

\* a short position with a fixed stop at 150 is triggered by a price of
\* exactly 150, the alert carrying 150
C19_Witness ==
    /\ pLastCheck.branch = "fixed" /\ pLastCheck.outcome = "trigger"
    /\ pLastCheck.pos.position_type = "short"
    /\ pLastCheck.pos.stop_loss_price = 150 /\ pLastCheck.pos.current_price = 150
    /\ pAlerts = <<[position_id |-> pLastCheck.id, current |-> 150]>>

\* C20: a cycle in which a price fetch failed (get_quotes returned a failure
\* or raised) is never left at the fetch, and unless a TypeError of
\* _check_stop ended it, it has evaluated every position of its snapshot
\* that was not triggered when its turn came.
C20_FetchFailureDoesNotAbort ==
    \A w \in Workers :
        LET log == pCycleLog[w]
        IN /\ log.abort # "fetch"
           /\ pPc[w] = "sleep" /\ log.failed /\ log.abort = "none"
                 => log.checked \cup log.skipped = log.snapshot

\* a cycle over two positions met a failed fetch and evaluated both
C20_Witness ==
    /\ pPc[1] = "sleep" /\ pCycleLog[1].failed
    /\ pCycleLog[1].snapshot = Pids /\ pCycleLog[1].checked = Pids

-----------------------------------------------------------------------------
(* Claims about the worker's loop and about start() and stop() (checked
   under SpecMonitorFair and SpecMonitorCalls) *)

\* C21: once stop() has cleared the flag, and for as long as no start() sets
\* it again, a worker at the top of _loop leaves the loop instead of starting
\* a cycle, a worker sleeps at most one slice to its end, and every worker
\* inside _loop eventually leaves it.
C21_StopEndsTheLoop ==
    /\ [][\A w \in Workers :
            (mWorker[w] = "while" /\ ~mRunning /\ mWorker'[w] # "while")
            => mWorker'[w] = "exited"]_vars
    /\ [](\A w \in Workers : ~mRunning => mAfter[w] <= 1)
    /\ ~mRunning ~> (mRunning \/ \A w \in Workers : ~InLoop(w))

\* C21 witness: a worker whose slice was in progress when the flag was
\* cleared slept it to its end, had slices left, and has left the loop
C21_Witness ==
    \E w \in Workers :
        /\ mWorker[w] = "exited"
        /\ mAfter[w] = 1
        /\ ~mRunning

\* C22: with start() and stop() called one after the other, a start() that
\* finds the flag set and a stop() that finds it cleared change nothing of
\* the monitor (no thread is created or joined, no position or alert is
\* touched), and between two calls is_running() is true exactly when the last
\* call was start().
C22_StartStopIdempotent ==
    /\ [][\A c \in MonCallers :
            /\ (MStartTest(c) /\ mRunning)
               => UNCHANGED <<mRunning, mThread, mPc, mJoin, mWorker, varsStops>>
            /\ (MStopClear(c) /\ ~mRunning)
               => UNCHANGED <<mRunning, mThread, mPc, mJoin, mWorker, varsStops>>]_vars
    /\ [](NoCallInProgress => (mRunning <=> mLast = "start"))

\* C22 witness: a second start() found the monitor running and returned: one
\* thread for two calls
C22_Witness ==
    /\ NoCallInProgress
    /\ mStarts = 2
    /\ Cardinality(Created) = 1
    /\ mRunning

-----------------------------------------------------------------------------
(* Claims about the alert queue and the alert history (checked under
   SpecAlerts) *)

\* the alerts of a sequence, as a set
Range(q) == {q[k] : k \in DOMAIN q}

\* the sequence holds increasing alert numbers: emission order, none twice
Increasing(q) == \A j, k \in DOMAIN q : j < k => q[j] < q[k]

\* C23: no list returned by get_alert_history holds more than 50 alerts.
C23_HistoryNeverAboveCap ==
    Len(aSeen) <= history_cap

\* C30: no alert is handed out twice, every get_alerts list is in emission
\* order, every alert put on the queue is either still queued or has been
\* handed out to one call, and get_alert_history leaves the queue and the
\* history as they are.
C30_DrainOnceInOrder ==
    /\ [](/\ Increasing(aHanded)
          /\ \A r \in Readers : Increasing(aReader[r].alerts)
          /\ Range(aHanded) \cap Range(aQueue) = {}
          /\ Range(aHanded) \cup Range(aQueue) = (aNext - aEmits)..(aNext - 1)
          /\ \A j, k \in Readers :
                j # k => Range(aReader[j].alerts) \cap Range(aReader[k].alerts) = {})
    /\ [][\A r \in Readers : AGetHistory(r) => UNCHANGED <<aQueue, aHistory>>]_vars

\* C30 witness: two alerts were emitted, drained by two get_alerts calls, and
\* a get_alert_history in between returned both while the second was queued
C30_Witness ==
    /\ aHanded = <<aNext - 2, aNext - 1>>
    /\ aEmits = 2
    /\ aQueue = <<>>
    /\ aReads = 3
    /\ Len(aSeen) >= 2
    /\ \E r \in Readers : aReader[r].pc = "idle" /\ aReader[r].alerts = <<aNext - 1>>

-----------------------------------------------------------------------------
(* Claims about the monitor's lock, the rule calls and faults inside a cycle
   (checked under SpecStops) *)

\* C24: every step that writes a field of a MonitoredPosition or the alert
\* history is made with the monitor's lock held, and no price fetch is.
C24_WritesUnderLock ==
    [][/\ (pPos' # pPos \/ pAlerts' # pAlerts) => UnderLock
       /\ \A w \in Workers, q \in QuoteOutcomes : PollFetch(w, q) => ~UnderLock]_vars

\* the step is set_stop_loss or set_trailing_stop for position i
RuleCall(i) ==
    \/ \E x \in StopPrices : PSetStopLoss(i, x)
    \/ \E x \in TrailPcts : PSetTrailingStop(i, x)

\* the fields of position i that are not its stop rule, high_water_mark aside
OtherFields(p) ==
    <<p.position_type, p.avg_price, p.current_price, p.stop_triggered>>

\* C25, as stated: a rule call leaves high_water_mark, current_price,
\* stop_triggered and avg_price of its position, and every other position,
\* unchanged; for an id that is not monitored it changes nothing.
C25_RuleCallsKeepFields ==
    [][\A i \in Pids :
          RuleCall(i) =>
             /\ \A j \in Pids \ {i} : pPos'[j] = pPos[j]
             /\ OtherFields(pPos'[i]) = OtherFields(pPos[i])
             /\ pPos'[i].high_water_mark = pPos[i].high_water_mark
             /\ pPos[i] = NoPos => pPos' = pPos
             /\ pAlerts' = pAlerts]_vars

\* C25, amended: set_stop_loss leaves high_water_mark alone, set_trailing_stop
\* sets it to the position's current price (its average price when it has
\* none); all the rest as stated.
C25_RuleCallsFrame ==
    [][\A i \in Pids :
          RuleCall(i) =>
             /\ \A j \in Pids \ {i} : pPos'[j] = pPos[j]
             /\ OtherFields(pPos'[i]) = OtherFields(pPos[i])
             /\ pPos'[i].high_water_mark =
                   IF pPos[i] # NoPos /\ pPos'[i].trailing_stop_pct # NoRule
                   THEN (IF pPos[i].current_price # 0 THEN pPos[i].current_price
                         ELSE pPos[i].avg_price)
                   ELSE pPos[i].high_water_mark
             /\ pPos[i] = NoPos => pPos' = pPos
             /\ pAlerts' = pAlerts]_vars

\* C25 witness: a long position bought at 100 whose price fell to 70 was given
\* a trailing stop: its high_water_mark went from 100 to 70 and nothing else
\* of it moved
C25_Witness ==
    \E i \in Pids :
        /\ pPos[i].position_type = "long"
        /\ pPos[i].avg_price = 100
        /\ pPos[i].trailing_stop_pct # NoRule
        /\ pPos[i].high_water_mark = 70
        /\ pPos[i].current_price = 70
        /\ ~pPos[i].stop_triggered
        /\ pSince[i] = [seed |-> 70, extreme |-> 0]

\* C29: a worker whose cycle was cut short by an exception is in the sleep of
\* _loop, no worker's thread has ended, and a worker leaves the sleep only
\* for the top of the loop, where the next cycle starts.
C29_FaultsDoNotEndTheLoop ==
    /\ [](\A w \in Workers :
            /\ pPc[w] # "dead"
            /\ pCycleLog[w].abort # "none" => pPc[w] = "sleep")
    /\ [][\A w \in Workers :
            (pPc[w] = "sleep" /\ pPc'[w] # "sleep") => pPc'[w] = "top"]_vars
    /\ [][\A w \in Workers :
            (pPc[w] = "top" /\ pPc'[w] # "top") => pPc'[w] = "visit"]_vars

\* C29 witness: the cycle after one that a TypeError of _check_stop had cut
\* short has visited a position
C29_Witness ==
    /\ mRunning
    /\ pCycleLog[1].afterFault
    /\ pCycleLog[1].checked # {}

-----------------------------------------------------------------------------
(* Claims about the breaker's recovery and its failure count (checked under
   SpecBreaker) *)

\* C26: the state leaves OPEN only for HALF_OPEN, at a moment that is at
\* least recovery_timeout after last_failure_time, and a call that returns
\* while the state is HALF_OPEN leaves the breaker CLOSED with failure_count 0.
C26_RecoveryThroughHalfOpen ==
    /\ [][(cbState = "OPEN" /\ cbState' # "OPEN")
          => /\ cbState' = "HALF_OPEN"
             /\ cbLastFailureTime # NoTime
             /\ now - cbLastFailureTime >= recovery_timeout]_vars
    /\ [][\A t \in CbThreads :
            (CbOnSuccess(t) /\ cbState = "HALF_OPEN")
            => (cbState' = "CLOSED" /\ cbFailureCount' = 0)]_vars

\* C26 witness: recovery_timeout after the failure that opened it, the
\* breaker was moved to HALF_OPEN by a call whose success has closed it
C26_Witness ==
    /\ cbLastEvent.kind = "success"
    /\ cbLastEvent.prevState = "HALF_OPEN"
    /\ cbState = "CLOSED"
    /\ cbFailureCount = 0
    /\ now - cbLastFailureTime >= recovery_timeout

\* C27: a call that returns leaves failure_count at 0 whatever the state, and
\* the state goes from CLOSED to OPEN only on a failure that is at least the
\* failure_threshold-th recorded since the last success.
C27_SuccessResetsTheCount ==
    /\ [][\A t \in CbThreads : CbOnSuccess(t) => cbFailureCount' = 0]_vars
    /\ [][(cbState = "CLOSED" /\ cbState' = "OPEN")
          => (cbLastEvent'.kind = "failure" /\ cbConsec' >= cbThreshold)]_vars
    /\ [](cbLastEvent.kind = "success" => cbFailureCount = 0)

\* C27 witness: with failure_threshold 2 a failure was recorded, the breaker
\* stayed CLOSED, and the success recorded next has put failure_count back
\* to 0 (recovery_timeout has not passed: the breaker was never HALF_OPEN)
C27_Witness ==
    /\ cbThreshold = 2
    /\ cbState = "CLOSED"
    /\ cbLastEvent.kind = "success"
    /\ cbLastEvent.prevState = "CLOSED"
    /\ cbLastFailureTime # NoTime
    /\ cbFailureCount = 0
    /\ cbCalls = 2
    /\ now < recovery_timeout

-----------------------------------------------------------------------------
(* Claims about the limiter and the transport (checked under SpecLimiter) *)

\* C28: a thread that is about to call, or is inside, the transport method of
\* a read or a write holds the API lock and has acquired from the rate
\* limiter in the attempt it is in, and the transport is only ever called by
\* such a thread; an attempt whose acquisition failed calls nothing.
C28_AcquireBeforeDispatch ==
    /\ [](\A t \in GwThreads :
            gPc[t] \in {"send", "inflight"}
            => (gApiLock = t /\ gCall[t].acquired = gCall[t].attempt))
    /\ [][\A t \in GwThreads :
            (gCall'[t].op \in Ops /\ gCall'[t].tcalls > gCall[t].tcalls)
            => /\ gApiLock = t
               /\ gCall[t].acquired = gCall[t].attempt
               /\ gCall[t].fault = "none"]_vars
    /\ [][\A t \in GwThreads :
            (gCall'[t].timeouts > gCall[t].timeouts)
            => (gCall'[t].tcalls = gCall[t].tcalls /\ gPc'[t] \notin {"send", "inflight"})]_vars

\* C28 witness: a get_quotes whose first attempt ran out of time in the
\* limiter without calling the transport is, in its second attempt, inside
\* the transport call with the lock held and a token acquired
C28_Witness ==
    \E t \in GwThreads :
        /\ gCall[t].op = "get_quotes"
        /\ gCall[t].timeouts = 1
        /\ gCall[t].attempt = 2
        /\ gCall[t].acquired = 2
        /\ gCall[t].tcalls = 1
        /\ gPc[t] = "inflight"
        /\ gApiLock = t

-----------------------------------------------------------------------------
(* Claims about error classification (checked under SpecRetry) *)

\* the words the classifiers are to recognise in any letter case
TransientWords == { <<"5","0","3">>, <<"t","i","m","e","o","u","t">>, <<"4","2","9">> }
PermanentWords == { <<"u","n","a","u","t","h","o","r","i","z","e","d">>,
                    <<"s","e","s","s","i","o","n"," ","e","x","p","i","r","e","d">> }

\* the transient test of the classifier that `impl` belongs to
IsTransient(impl, e) ==
    IF impl = "retry_api_call" THEN _is_transient(e) ELSE is_transient_error(e)

\* C31: in both classifier implementations, a message that contains "503",
\* "timeout" or "429" in any letter case passes the transient test, and a
\* message that contains "unauthorized" or "session expired" in any letter
\* case passes the permanent test.
C31_WordsClassified ==
    rLast.kind \in {"payload", "raise"} =>
        /\ (\E w \in TransientWords : contains(lower(rLast.msg), w))
                => IsTransient(rImpl, rLast.msg)
        /\ (\E w \in PermanentWords : contains(lower(rLast.msg), w))
                => IsPermanent(rImpl, rLast.msg)

-----------------------------------------------------------------------------
(* Claims about orders with one signature (checked under SpecOrder) *)

\* the place_order call that made the reservation of `key` reached the transport
Dispatched(key) ==
    \/ gDone.op = "place_order" /\ gDone.key = key /\ gDone.tcalls = 1
    \/ \E u \in GwThreads :
          gCall[u].op = "place_order" /\ gCall[u].key = key /\ gCall[u].tcalls = 1

\* C32: while the reservation of a dispatched place_order is neither released
\* nor 60 s old, no other place_order with the same signature (stock code,
\* strike, option type, action, quantity) is at the transport, whatever the
\* wall-clock minute of either call.
C32_SameSignatureOnceInWindow ==
    \A t \in GwThreads :
        (gCall[t].op = "place_order" /\ gPc[t] = "inflight")
        => ~ \E r \in gLive :
                /\ r.key[1] = gCall[t].order
                /\ r.key # gCall[t].key
                /\ now - r.at < 60
                /\ Dispatched(r.key)

-----------------------------------------------------------------------------
(* Claims about the price a stop is evaluated on (checked under SpecStops) *)

\* C36: a stop triggers, and its alert is emitted, only in a visit whose
\* _update_price stored a freshly fetched positive last-traded price, and the
\* price the alert carries is that price; a visit whose fetch failed never
\* triggers from the price stored earlier or from the initial avg_price.
C36_AlertOnlyOnFreshPrice ==
    pLastCheck.outcome = "trigger" =>
        /\ pLastCheck.fetched > 0
        /\ pLastCheck.pos.current_price = pLastCheck.fetched

-----------------------------------------------------------------------------
(* Claims about stop() and remove_position during a poll cycle (checked
   under SpecLifecycle) *)

\* stop() has returned and start() has not been called since
Stopped == mLast = "stop" /\ NoCallInProgress

\* C33: once stop() has returned, and until start() is called again, no
\* worker is inside _check_stop and no alert is added to the history (nor to
\* the queue, which is written in the same step), also when the join of
\* stop() timed out during a poll cycle.
C33_QuietAfterStop ==
    /\ [](Stopped => \A w \in Workers : pPc[w] \notin {"check", "decide"})
    /\ [][Stopped => pAlerts' = pAlerts]_vars

\* C37: once remove_position(id) has returned, no poll worker begins a price
\* fetch for that position and no alert is emitted for it, also when a cycle
\* that holds the position in its snapshot is in progress.
C37_NothingAfterRemove ==
    /\ [][\A w \in Workers, i \in pRemoved :
            ~(pPc[w] = "visit" /\ pPc'[w] = "fetch" /\ pCur'[w] = i)]_vars
    /\ [][\A i \in pRemoved :
            {k \in DOMAIN pAlerts' : pAlerts'[k].position_id = i} = AlertsOf(i)]_vars

-----------------------------------------------------------------------------
(* Claims about the tokens a bucket grants (checked under SpecBucket) *)

\* the tokens granted by the grants i..j of the history
RECURSIVE GrantedFrom(_, _)
GrantedFrom(i, j) ==
    IF i > j THEN 0 ELSE tbLog.grants[i].tokens + GrantedFrom(i + 1, j)

\* C34: the tokens granted by acquire / wait_for_token over any span of time
\* of length T are at most capacity + rate * T / refill_interval, under any
\* interleaving of the callers (T is counted in units of 1/rate seconds, so
\* rate * T is the number of units).
C34_NeverOverIssues ==
    \A i, j \in DOMAIN tbLog.grants :
        i <= j =>
            GrantedFrom(i, j) <= bucket_capacity
                + (tbLog.grants[j].at - tbLog.grants[i].at) \div refill_interval

-----------------------------------------------------------------------------
(* Claims about the session (checked under SpecSession) *)

\* is_connected(): `self.connected and self.breeze is not None`
is_connected == gConnected

\* C35: when the call that ended last is a connect() that failed, the client
\* does not report itself connected, also when an earlier connect() on the
\* same client had succeeded.
C35_FailedConnectNotConnected ==
    (gDone.op = "connect" /\ gDone.returned = "result" /\ ~gDone.success)
        => ~is_connected

-----------------------------------------------------------------------------
(* Claims about refused duplicates (checked under SpecOrder) *)

\* C38: the step on which place_order is refused as a duplicate leaves the
\* guard's live reservations as they are, timestamps included, and the lock
\* and the limiter untouched; the refused call has acquired nothing from the
\* rate limiter and has made no transport call, and it returns a failure
\* with error_code DUPLICATE_ORDER.
C38_DuplicateHasNoSideEffects ==
    [][\A t \in GwThreads :
          (gPc[t] = "reserve" /\ gPc'[t] = "idle")
          => /\ LiveEntries(gRecent', now) = LiveEntries(gRecent, now)
             /\ gLive' = gLive
             /\ gApiLock' = gApiLock
             /\ gTokens' = gTokens /\ gLastRefill' = gLastRefill
             /\ gCall[t].acquired = 0 /\ gCall[t].tcalls = 0
             /\ gDone'.tcalls = 0
             /\ gDone'.returned = "result" /\ ~gDone'.success
             /\ gDone'.error_code = "DUPLICATE_ORDER"
             /\ \A u \in GwThreads \ {t} : gPc'[u] = gPc[u] /\ gCall'[u] = gCall[u]]_vars

\* C38 witness: a place_order was refused as a duplicate 30 s after the
\* reservation of its key was made, and the reservation still carries the
\* time at which it was made
C38_Witness ==
    /\ gDone.error_code = "DUPLICATE_ORDER"
    /\ gDone.tcalls = 0
    /\ gDone.refusedAt # NoTime
    /\ \E r \in gRecent :
          /\ r.key = gDone.key
          /\ r.at < gDone.refusedAt
          /\ now = gDone.refusedAt

-----------------------------------------------------------------------------
(* Claims about wait_for_token (checked under SpecBucketWaits) *)

\* C39: every wait_for_token(n, timeout) ends; the step on which it returns
\* deducts n tokens from the refilled bucket and is its only grant, the step
\* on which it raises TimeoutError and every step on which it goes on
\* waiting deduct nothing, and a call for more than capacity tokens never
\* returns.
C39_WaitEndsOneWayOrTheOther ==
    /\ (\E t \in Waiters : tbPc[t] # "idle") ~> (\A t \in Waiters : tbPc[t] = "idle")
    /\ [][\A t \in TbThreads :
            (tbPc[t] = "acquire" /\ tbPc'[t] = "idle")
            => /\ tbTokens' = refill(tbTokens, tbLastRefill, tbClock).tokens - tbWait[t].tokens
               /\ tbLog'.grants = Append(tbLog.grants,
                                         [at |-> tbClock, tokens |-> tbWait[t].tokens])
               /\ tbWait[t].tokens <= bucket_capacity]_vars
    /\ [][\A t \in TbThreads :
            (tbPc[t] = "acquire" /\ tbPc'[t] = "sleep")
            => /\ tbTokens' = refill(tbTokens, tbLastRefill, tbClock).tokens
               /\ tbLog'.grants = tbLog.grants]_vars
    /\ [][\A t \in TbThreads :
            (tbPc[t] \in {"while", "sleep"} /\ tbPc'[t] # tbPc[t])
            => (tbTokens' = tbTokens /\ tbLog'.grants = tbLog.grants)]_vars

\* C39 witness: of two wait_for_token calls that have ended, one returned
\* with its tokens and the other raised TimeoutError
C39_Witness ==
    /\ tbCalls = 2
    /\ \A t \in TbThreads : tbPc[t] = "idle"
    /\ Len(tbLog.grants) = 1
    /\ tbTokens < bucket_capacity

-----------------------------------------------------------------------------
(* Claims about the backoff schedule (checked under SpecRetry) *)

\* the schedule as stated: d_1 = initial_delay and
\* d_(k+1) = min(d_k * backoff_factor, max_delay)
RECURSIVE ScheduledDelay(_, _)
ScheduledDelay(policy, k) ==
    IF k <= 1
    THEN policy.initial_delay
    ELSE LET d == ScheduledDelay(policy, k - 1) * policy.backoff_factor
         IN IF d < policy.max_delay THEN d ELSE policy.max_delay

\* C40: while retry_with_backoff sleeps before retry k, the argument of
\* time.sleep is d_k * j, where j is the jitter factor drawn for this sleep,
\* in [0.5, 1.5], and 1 when jitter is off; the un-jittered delay it was
\* computed from is d_k of the schedule d_1 = initial_delay,
\* d_(k+1) = min(d_k * backoff_factor, max_delay), and never exceeds max_delay.
C40_BackoffSchedule ==
    (rImpl = "retry_with_backoff" /\ rPc = "sleep") =>
        /\ rSleep.j \in 2..6
        /\ ~rPolicy.jitter => rSleep.j = 4
        /\ rSleep.secs * 4 = ScheduledDelay(rPolicy, rSleep.k) * rSleep.j
        /\ rSleep.delay = ScheduledDelay(rPolicy, rSleep.k)
        /\ rSleep.delay <= rPolicy.max_delay

====
